---- MODULE Spec2Model ----
(***************************************************************************)
(* Model of the ray-casting core of the 3D model editor: the intersection  *)
(* library (core/RayIntersection.cpp), the orbit camera (core/Camera.cpp), *)
(* vertex selection and editing (core/Model.cpp), the software ray caster  *)
(* (rendering/SoftwareRenderer.cpp), the matrices (math/Matrix4.cpp) and   *)
(* the input callbacks (input/InputHandler.cpp).                           *)
(*                                                                         *)
(* Numbers.  The program computes in 32-bit floats; the model computes in  *)
(* exact integer arithmetic on a grid.  A position is a triple of integers *)
(* in grid units, one grid unit being 1/OcclusionMarginInv = 0.05 world    *)
(* units.  A direction is kept by an integer representative V that stands  *)
(* for the unit vector V/|V| (the zero triple stands for the zero vector   *)
(* that Vector3::normalized returns for a vector shorter than 1e-6).  A    *)
(* ray parameter t of a ray with representative D is kept as the fraction  *)
(* num/den with t = (num/den)*|D|; every comparison the code makes on      *)
(* floats is made here on the cross-multiplied integers.                   *)
(***************************************************************************)
EXTENDS Integers, Sequences, FiniteSets, TLC

VARIABLES
    triIn,      \* inputs of the intersectTriangle call
    triOut,     \* [done, res]: whether it was made, and its TriangleHit
    pitch,      \* Camera::pitch, in degrees (Utils::DEG_TO_RAD is one unit)
    yaw,        \* Camera::yaw, in degrees
    distance,   \* Camera::distance, in grid units
    target,     \* Camera::target
    camOp,      \* the last Camera call: [op, a, b] (name and arguments)
    fov,        \* Camera::fov, in degrees
    aspectRatio,    \* Camera::aspectRatio, as <<width, height>>
    nearPlane,  \* Camera::nearPlane, in grid units
    farPlane,   \* Camera::farPlane, in grid units
    viewDirty,  \* Camera::viewDirty
    projectionDirty,    \* Camera::projectionDirty
    viewMatrix, \* Camera::viewMatrix, the cached view matrix
    projectionMatrix,   \* Camera::projectionMatrix, the cached projection matrix
    vertices,   \* Model::vertices, the positions (index i is vertices[i + 1])
    faces,      \* Model::faces, triples of 0-based vertex indices
    selectedVertexIndex,    \* Model::selectedVertexIndex, -1 when nothing is selected
    disableVisibilityCheck, \* the flag set by Model::setDisableVisibilityCheck
    selCall,    \* the last Model::selectVertex call, its arguments and outcome
    visIn,      \* arguments of an isVertexVisible call: [cameraPos, vertex]
    visOut,     \* [done, visible]: whether the call has returned, and its result
    castIn,     \* the renderer's config and reflectionConfig, and the hits of the
                \* primary ray of a pixel and of a reflected ray on every primitive
    castOut,    \* [done, color]: whether castRay has returned, and its result
    castLog,    \* the invocations of castRay made for the pixel, in call order
    rayIn,      \* the arguments of a RayIntersection call on a ray
    rayOut,     \* whether that call has returned, and what it returned
    absIsInt,   \* whether the build resolves the unqualified abs(denom) of
                \* rayEdgeDistance to int abs(int) (as g++ with libstdc++ does)
                \* or to a floating-point overload
    edges,      \* Model::edges, pairs of 0-based vertex indices
    isModified, \* Model::isModified
    normals,    \* the normal of each vertex of Model::vertices
    editOp,     \* the last editing call on the Model: [op, index]
    width,      \* SoftwareRenderer::width
    height,     \* SoftwareRenderer::height
    pixels,     \* SoftwareRenderer::pixels: [size, content], its number of
                \* entries and what every entry holds
    triangles,  \* SoftwareRenderer::triangles, the corners of each
    rendCamera, \* SoftwareRenderer's cameraPos, cameraTarget and fov
    rendOp,     \* the last lifecycle call on the SoftwareRenderer
    fault,      \* whether a call wrote outside the pixel array or threw
    matIn,      \* the Matrix4 that inverse() is called on
    matOut,     \* [done, inverse, product]: what inverse() returned for it, and
                \* matIn * that
    handler,    \* the InputHandler: currentMode, mouseButtons, lastMouseX,
                \* lastMouseY, mouseDeltaX, mouseDeltaY, firstMouse, keysPressed
    cursor,     \* the cursor position that glfwGetCursorPos reports, as <<x, y>>
    inputOp     \* the last callback delivered to the InputHandler: [op, a, b],
                \* whether it invoked Camera::orbit, and the number of
                \* cursor-position events since the last middle-button press

triVars == <<triIn, triOut>>

projVars == <<fov, aspectRatio, nearPlane, farPlane>>

cacheVars == <<viewDirty, projectionDirty, viewMatrix, projectionMatrix>>

camVars == <<pitch, yaw, distance, target, camOp, projVars, cacheVars>>

selVars == <<vertices, faces, selectedVertexIndex, disableVisibilityCheck, selCall>>

visVars == <<visIn, visOut>>

castVars == <<castIn, castOut, castLog>>

rayVars == <<rayIn, rayOut, absIsInt>>

editVars == <<edges, isModified, normals, editOp>>

rendVars == <<width, height, pixels, triangles, rendCamera, rendOp, fault>>

mathVars == <<matIn, matOut>>

inputVars == <<handler, cursor, inputOp>>

moreVars == <<mathVars, inputVars>>

extVars == <<rayVars, editVars, rendVars, moreVars>>

vars == <<triVars, camVars, selVars, visVars, castVars, extVars>>

nonTriVars == <<camVars, selVars, visVars, castVars, extVars>>

nonCamVars == <<triVars, selVars, visVars, castVars, extVars>>

nonSelVars == <<triVars, camVars, visVars, castVars, extVars>>

----------------------------------------------------------------------------
(* Vector3 *)

Vec(x, y, z) == <<x, y, z>>

ZERO == Vec(0, 0, 0)

Add(a, b) == Vec(a[1] + b[1], a[2] + b[2], a[3] + b[3])

Sub(a, b) == Vec(a[1] - b[1], a[2] - b[2], a[3] - b[3])

Scale(a, k) == Vec(a[1] * k, a[2] * k, a[3] * k)

Neg(a) == Vec(-a[1], -a[2], -a[3])

Dot(a, b) == a[1] * b[1] + a[2] * b[2] + a[3] * b[3]

Cross(a, b) == Vec(a[2] * b[3] - a[3] * b[2],
                   a[3] * b[1] - a[1] * b[3],
                   a[1] * b[2] - a[2] * b[1])

LenSq(a) == Dot(a, a)

Abs(n) == IF n < 0 THEN -n ELSE n

Sign(n) == IF n < 0 THEN -1 ELSE IF n > 0 THEN 1 ELSE 0

Max(a, b) == IF a < b THEN b ELSE a

\* a ray: origin and the representative of its stored (normalized) direction
Ray(origin, direction) == [origin |-> origin, dir |-> direction]


----------------------------------------------------------------------------
(* RayIntersection: ray against triangle *)

\* grid units per world unit: the grid unit is the occlusion margin 0.05f
OcclusionMarginInv == 20

\* 1e-6f, the threshold under which a denominator counts as zero
EpsInv == 1000000

\* |dotND / (|N|*|D|)| < 1e-6 for the unit vectors N/|N| and D/|D|
\* (a zero representative is the zero vector, whose dot product is 0)
BelowEps(dotND, nn, dd) ==
    IF nn = 0 \/ dd = 0 \/ dotND = 0 THEN TRUE
    ELSE (((nn * dd - 1) \div (dotND * dotND)) \div EpsInv) >= EpsInv

\* a point with rational coordinates num/den, den > 0
RatPoint(num, den) == [num |-> num, den |-> den]

\* the edge test "dot(cross(edge, point - from), normal) < 0", scaled by point.den
LeftOfFailsLoose(edge, from, point, normal) ==
    Dot(Cross(edge, Sub(point.num, Scale(from, point.den))), normal) <= 0

LeftOfFails(edge, from, point, normal) ==
    Dot(Cross(edge, Sub(point.num, Scale(from, point.den))), normal) < 0

isPointInsideTriangle(point, v0, v1, v2, normal) ==
    IF LeftOfFails(Sub(v1, v0), v0, point, normal) THEN FALSE
    ELSE IF LeftOfFails(Sub(v2, v1), v1, point, normal) THEN FALSE
    ELSE IF LeftOfFails(Sub(v0, v2), v2, point, normal) THEN FALSE
    ELSE TRUE

\* a default-constructed TriangleHit
NoTriangleHit ==
    [hit |-> FALSE, distNum |-> 0, distDen |-> 1,
     point |-> RatPoint(ZERO, 1), normal |-> ZERO, isFrontFace |-> TRUE]

\* distance = (distNum/distDen) * |ray.dir|, point = origin + dir * distNum/distDen
intersectTriangle(ray, v0, v1, v2) ==
    LET edge1 == Sub(v1, v0)
        edge2 == Sub(v2, v0)
        normal == Cross(edge1, edge2)
        denom == Dot(normal, ray.dir)
        isFrontFace == denom < 0
        toPlane == Sub(v0, ray.origin)
        tNum == Dot(toPlane, normal) * Sign(denom)
        tDen == Abs(denom)
        point == RatPoint(Add(Scale(ray.origin, tDen), Scale(ray.dir, tNum)), tDen)
    IN  IF BelowEps(denom, LenSq(normal), LenSq(ray.dir)) THEN NoTriangleHit
        ELSE IF tNum < 0 THEN NoTriangleHit
        ELSE IF ~isPointInsideTriangle(point, v0, v1, v2, normal) THEN NoTriangleHit
        ELSE [hit |-> TRUE, distNum |-> tNum, distDen |-> tDen, point |-> point,
              normal |-> IF isFrontFace THEN normal ELSE Neg(normal),
              isFrontFace |-> isFrontFace]

----------------------------------------------------------------------------
(* RayIntersection: ray against vertex *)

RECURSIVE GCD(_, _)
GCD(a, b) == IF b = 0 THEN a ELSE GCD(b, a % b)

\* a length num/den in grid units, den > 0, in lowest terms
Frac(num, den) ==
    LET g == GCD(Abs(num), den) IN [num |-> num \div g, den |-> den \div g]

\* "distance <= threshold" for the distance d of rayPointDistance, whose square
\* is d.sqNum / d.sqDen, and a threshold given as a fraction
isWithin(d, threshold) ==
    IF threshold.num < 0 THEN FALSE
    ELSE d.sqNum <= (threshold.num * threshold.num * d.sqDen)
                        \div (threshold.den * threshold.den)

\* rayPointDistance: the ray parameter is paramNum / |ray.dir| (0 for a zero
\* direction) and the distance is sqrt(sqNum / sqDen)
rayPointDistance(ray, point) ==
    LET toPoint == Sub(point, ray.origin)
        dd == LenSq(ray.dir)
        paramNum == Max(Dot(toPoint, ray.dir), 0)
        den == IF dd = 0 THEN 1 ELSE dd
        closestNum == Add(Scale(ray.origin, den), Scale(ray.dir, paramNum))
    IN  [paramNum |-> paramNum,
         sqNum |-> LenSq(Sub(Scale(point, den), closestNum)),
         sqDen |-> den * den]

\* a default-constructed VertexHit
NoVertexHit == [hit |-> FALSE, distance |-> 0, point |-> ZERO, vertexIndex |-> -1]

intersectVertex(ray, vertex, threshold, vertexIndex) ==
    LET d == rayPointDistance(ray, vertex)
    IN  IF isWithin(d, threshold)
        THEN [hit |-> TRUE, distance |-> d.paramNum, point |-> vertex,
              vertexIndex |-> vertexIndex]
        ELSE NoVertexHit

----------------------------------------------------------------------------
(* RayIntersection: ray against edge and line *)

\* Ray parameters of edge hits are fractions u of the direction representative:
\* the stored parameter is u * |ray.dir| (and 0 for a zero direction).
FracLess(x, y) == x.num * y.den < y.num * x.den

FracMax0(x) == IF x.num < 0 THEN Frac(0, 1) ELSE x

\* std::clamp(t, 0.0f, 1.0f)
clamp01(t) ==
    IF t.num < 0 THEN Frac(0, 1) ELSE IF t.num > t.den THEN Frac(1, 1) ELSE t

\* from + dir * k for a fraction k
pointAlong(from, dir, k) == RatPoint(Add(Scale(from, k.den), Scale(dir, k.num)), k.den)

\* std::max(Vector3::dot(point - ray.origin, ray.direction), 0.0f)
paramOnRay(ray, point) ==
    IF LenSq(ray.dir) = 0 THEN Frac(0, 1)
    ELSE FracMax0(Frac(Dot(Sub(point.num, Scale(ray.origin, point.den)), ray.dir),
                       point.den * LenSq(ray.dir)))

\* std::clamp(Vector3::dot(point - A, AB) / edgeLengthSq, 0.0f, 1.0f)
paramOnEdge(A, AB, point) ==
    clamp01(Frac(Dot(Sub(point.num, Scale(A, point.den)), AB), point.den * LenSq(AB)))

\* (p - q).length(), squared, as the fraction sqNum / sqDen
distanceBetween(p, q) ==
    LET g == GCD(p.den, q.den)
        pw == q.den \div g
        qw == p.den \div g
        diff == Sub(Scale(p.num, pw), Scale(q.num, qw))
        den == p.den * pw
        h == GCD(GCD(Abs(diff[1]), Abs(diff[2])), GCD(Abs(diff[3]), den))
        sq == Frac(LenSq(Vec(diff[1] \div h, diff[2] \div h, diff[3] \div h)),
                   (den \div h) * (den \div h))
    IN  [sqNum |-> sq.num, sqDen |-> sq.den]

\* "x < 1e-6f" for x = num / (den * 400) world units squared, num >= 0, den > 0
BelowEpsSq(num, den) ==
    num <= (den * OcclusionMarginInv * OcclusionMarginInv - 1) \div EpsInv

\* "abs(denom) < 1e-6f" for denom = q / (dd * 400) >= 0: the int overload
\* takes the denominator truncated to an int, which is 0 below 1
isParallel(q, dd) ==
    IF absIsInt THEN q < dd * OcclusionMarginInv * OcclusionMarginInv
    ELSE BelowEpsSq(q, dd)

\* the result of rayEdgeDistance: the returned distance (squared) and the two
\* reference arguments as the call leaves them
EdgeDistance(rayParameter, edgeParameter, d) ==
    [rayParameter |-> rayParameter, edgeParameter |-> edgeParameter,
     sqNum |-> d.sqNum, sqDen |-> d.sqDen]

\* the general branch; s and t are the parameters of the two lines as computed
edgeDistanceGeneral(ray, A, AB, s, t) ==
    LET edge1 == clamp01(t)
        ray1 == IF t # edge1 THEN paramOnRay(ray, pointAlong(A, AB, edge1))
                ELSE FracMax0(s)
        edge2 == IF s # ray1
                 THEN paramOnEdge(A, AB, pointAlong(ray.origin, ray.dir, ray1))
                 ELSE edge1
    IN  EdgeDistance(ray1, edge2,
                     distanceBetween(pointAlong(ray.origin, ray.dir, ray1),
                                     pointAlong(A, AB, edge2)))

\* the branch of parallel lines: the closest point of the edge to the origin
edgeDistanceParallel(ray, A, AB, e, c) ==
    LET edgeParameter == clamp01(Frac(-e, c))
        closestOnEdge == pointAlong(A, AB, edgeParameter)
        rayParameter == paramOnRay(ray, closestOnEdge)
    IN  EdgeDistance(rayParameter, edgeParameter,
                     distanceBetween(pointAlong(ray.origin, ray.dir, rayParameter),
                                     closestOnEdge))

\* rayEdgeDistance; edgeParameter0 is what the caller's edgeParameter holds
\* before the call (the degenerate branch does not assign it).  With
\* a = dot(d, d), b = dot(d, AB), c = dot(AB, AB), f = dot(d, P0A) and
\* e = dot(AB, P0A) for the unit direction d = ray.dir / |ray.dir|,
\* denom = (c * dd - bh * bh) / dd, s = |ray.dir| * (bh * e - c * fh) / q and
\* t = (e * dd - bh * fh) / q.
rayEdgeDistance(ray, edgeStart, edgeEnd, edgeParameter0) ==
    LET AB == Sub(edgeEnd, edgeStart)
        c == LenSq(AB)
        dd == LenSq(ray.dir)
        P0A == Sub(edgeStart, ray.origin)
        bh == Dot(ray.dir, AB)
        fh == Dot(ray.dir, P0A)
        e == Dot(AB, P0A)
        q == c * dd - bh * bh
        point == rayPointDistance(ray, edgeStart)
    IN  IF BelowEpsSq(c, 1)
        THEN EdgeDistance(Frac(point.paramNum, IF dd = 0 THEN 1 ELSE dd),
                          edgeParameter0,
                          [sqNum |-> Frac(point.sqNum, point.sqDen).num,
                           sqDen |-> Frac(point.sqNum, point.sqDen).den])
        ELSE IF dd = 0 \/ isParallel(q, dd)
        THEN edgeDistanceParallel(ray, edgeStart, AB, e, c)
        ELSE edgeDistanceGeneral(ray, edgeStart, AB,
                                 Frac(bh * e - c * fh, q), Frac(e * dd - bh * fh, q))

\* a default-constructed EdgeHit
NoEdgeHit ==
    [hit |-> FALSE, distance |-> Frac(0, 1), point |-> RatPoint(ZERO, 1),
     edgeIndex |-> -1, edgeParameter |-> Frac(0, 1)]

\* intersectEdge: every field is set whether or not the edge is hit
intersectEdge(ray, edgeStart, edgeEnd, threshold, edgeIndex, edgeParameter0) ==
    LET d == rayEdgeDistance(ray, edgeStart, edgeEnd, edgeParameter0)
    IN  [hit |-> isWithin(d, threshold),
         distance |-> d.rayParameter,
         point |-> pointAlong(edgeStart, Sub(edgeEnd, edgeStart), d.edgeParameter),
         edgeIndex |-> edgeIndex,
         edgeParameter |-> d.edgeParameter]

\* a default-constructed LineHit
NoLineHit ==
    [hit |-> FALSE, distance |-> Frac(0, 1), point |-> RatPoint(ZERO, 1),
     lineIndex |-> -1, lineParameter |-> Frac(0, 1)]

\* intersectLine: the threshold is multiplied by the line's thickness
intersectLine(ray, line, threshold, lineIndex, lineParameter0) ==
    LET d == rayEdgeDistance(ray, line.start, line.end, lineParameter0)
    IN  IF isWithin(d, Frac(threshold.num * line.thickness, threshold.den))
        THEN [hit |-> TRUE,
              distance |-> d.rayParameter,
              point |-> pointAlong(line.start, Sub(line.end, line.start),
                                   d.edgeParameter),
              lineIndex |-> lineIndex,
              lineParameter |-> d.edgeParameter]
        ELSE NoLineHit

----------------------------------------------------------------------------
(* RayIntersection: the occlusion test *)

\* 0.001f, the distance under which a face corner counts as the target vertex
SameVertexEpsInv == 1000

\* (corner - vertex).length() < 0.001f, lengths in grid units
isSameVertex(corner, vertex) ==
    LenSq(Sub(corner, vertex))
        <= (OcclusionMarginInv * OcclusionMarginInv - 1)
             \div (SameVertexEpsInv * SameVertexEpsInv)

\* face.v1 >= vertices.size() || ... : the int is compared as a size_t, so a
\* negative index is out of range too
isFaceOutOfRange(face, verts) ==
    \E k \in 1..3 : face[k] < 0 \/ face[k] >= Len(verts)

\* hit.hit && hit.distance < targetDistance - 0.05f, where targetDistance = |dir|
\* and hit.distance = (distNum / distDen) * |dir|; 0.05f is one grid unit
isCloserNoMargin(hit, dd) ==
    /\ hit.hit
    /\ hit.distDen - hit.distNum > 0

isCloser(hit, dd) ==
    /\ hit.hit
    /\ hit.distDen - hit.distNum > 0
    /\ (hit.distDen - hit.distNum) * (hit.distDen - hit.distNum)
           > (hit.distDen * hit.distDen) \div dd

RECURSIVE visibleFrom(_, _, _, _, _)
visibleFrom(i, visibilityRay, vertex, verts, fcs) ==
    IF i > Len(fcs) THEN TRUE
    ELSE LET face == fcs[i] IN
         IF isFaceOutOfRange(face, verts)
         THEN visibleFrom(i + 1, visibilityRay, vertex, verts, fcs)
         ELSE LET v0 == verts[face[1] + 1]
                  v1 == verts[face[2] + 1]
                  v2 == verts[face[3] + 1]
              IN  IF isSameVertex(v0, vertex) \/ isSameVertex(v1, vertex)
                       \/ isSameVertex(v2, vertex)
                  THEN visibleFrom(i + 1, visibilityRay, vertex, verts, fcs)
                  ELSE IF isCloser(intersectTriangle(visibilityRay, v0, v1, v2),
                                   LenSq(visibilityRay.dir))
                  THEN FALSE
                  ELSE visibleFrom(i + 1, visibilityRay, vertex, verts, fcs)

isVertexVisible(cameraPos, vertex, verts, fcs) ==
    visibleFrom(1, Ray(cameraPos, Sub(vertex, cameraPos)), vertex, verts, fcs)

----------------------------------------------------------------------------
(* RayIntersection: findClosestIntersection *)

\* a default-constructed RaycastResult; distance is FLT_MAX while type is NONE
NoRaycastResult ==
    [type |-> "NONE", distance |-> Frac(0, 1), point |-> RatPoint(ZERO, 1),
     elementIndex |-> -1]

\* "hit.distance <= closestDistance", which lets a later hit replace an equal one
isCloserOrEqual(hit, hitDistance, result) ==
    hit /\ (result.type = "NONE" \/ ~FracLess(result.distance, hitDistance))

\* hit.hit && hit.distance < closestDistance
isCloserThan(hit, hitDistance, result) ==
    hit /\ (result.type = "NONE" \/ FracLess(hitDistance, result.distance))

RaycastResult(type, hitDistance, point, elementIndex) ==
    [type |-> type, distance |-> hitDistance, point |-> point,
     elementIndex |-> elementIndex]

\* the stored ray parameter of a vertex hit as a fraction of |ray.dir|
vertexDistance(ray, hit) ==
    Frac(hit.distance, IF LenSq(ray.dir) = 0 THEN 1 ELSE LenSq(ray.dir))

RECURSIVE closestVertex(_, _, _, _, _)
closestVertex(i, ray, verts, vertexThreshold, result) ==
    IF i >= Len(verts) THEN result
    ELSE closestVertex(i + 1, ray, verts, vertexThreshold,
             LET vertexHit == intersectVertex(ray, verts[i + 1], vertexThreshold, i)
             IN  IF isCloserThan(vertexHit.hit, vertexDistance(ray, vertexHit), result)
                 THEN RaycastResult("VERTEX", vertexDistance(ray, vertexHit),
                                    RatPoint(vertexHit.point, 1), vertexHit.vertexIndex)
                 ELSE result)

\* edge.v1 >= vertices.size() || edge.v2 >= vertices.size(), the int compared
\* as a size_t
isEdgeOutOfRange(edge, verts) ==
    \E k \in 1..2 : edge[k] < 0 \/ edge[k] >= Len(verts)

\* an edge loop that ends at the first edge out of range
RECURSIVE closestEdgeBreaks(_, _, _, _, _, _, _)
closestEdgeBreaks(i, ray, verts, edgs, edgeThreshold, edgeParameter0, result) ==
    IF i >= Len(edgs) \/ isEdgeOutOfRange(edgs[i + 1], verts) THEN result
    ELSE closestEdgeBreaks(i + 1, ray, verts, edgs, edgeThreshold, edgeParameter0,
             LET edgeHit == intersectEdge(ray, verts[edgs[i + 1][1] + 1],
                                          verts[edgs[i + 1][2] + 1],
                                          edgeThreshold, i, edgeParameter0)
             IN  IF isCloserThan(edgeHit.hit, edgeHit.distance, result)
                 THEN RaycastResult("EDGE", edgeHit.distance, edgeHit.point,
                                    edgeHit.edgeIndex)
                 ELSE result)

RECURSIVE closestEdge(_, _, _, _, _, _, _)
closestEdge(i, ray, verts, edgs, edgeThreshold, edgeParameter0, result) ==
    IF i >= Len(edgs) THEN result
    ELSE closestEdge(i + 1, ray, verts, edgs, edgeThreshold, edgeParameter0,
             IF isEdgeOutOfRange(edgs[i + 1], verts) THEN result
             ELSE LET edgeHit == intersectEdge(ray, verts[edgs[i + 1][1] + 1],
                                               verts[edgs[i + 1][2] + 1],
                                               edgeThreshold, i, edgeParameter0)
                  IN  IF isCloserThan(edgeHit.hit, edgeHit.distance, result)
                      THEN RaycastResult("EDGE", edgeHit.distance, edgeHit.point,
                                         edgeHit.edgeIndex)
                      ELSE result)

RECURSIVE closestFace(_, _, _, _, _)
closestFace(i, ray, verts, fcs, result) ==
    IF i >= Len(fcs) THEN result
    ELSE closestFace(i + 1, ray, verts, fcs,
             IF isFaceOutOfRange(fcs[i + 1], verts) THEN result
             ELSE LET triangleHit == intersectTriangle(ray, verts[fcs[i + 1][1] + 1],
                                                       verts[fcs[i + 1][2] + 1],
                                                       verts[fcs[i + 1][3] + 1])
                      d == Frac(triangleHit.distNum, triangleHit.distDen)
                  IN  IF isCloserThan(triangleHit.hit, d, result)
                      THEN RaycastResult("FACE", d, triangleHit.point, i)
                      ELSE result)

\* findClosestIntersection(ray, model, vertexThreshold, edgeThreshold);
\* edgeParameter0 is what intersectEdge's local edgeParam holds before it is set
findClosestIntersection(ray, verts, edgs, fcs, vertexThreshold, edgeThreshold, edgeParameter0) ==
    closestFace(0, ray, verts, fcs,
        closestEdge(0, ray, verts, edgs, edgeThreshold, edgeParameter0,
            closestVertex(0, ray, verts, vertexThreshold, NoRaycastResult)))

----------------------------------------------------------------------------
(* Matrix4: a matrix is [m, den]; m holds the 16 numerators in the column-major
   order of Matrix4::m (m[i + 1] is the C++ m[i]) and den > 0 is the
   denominator every entry shares, so that entry i is m[i + 1] / den *)

Matrix4(values, den) == [m |-> values, den |-> den]

\* Matrix4::identity
identity == Matrix4(<<1, 0, 0, 0,  0, 1, 0, 0,  0, 0, 1, 0,  0, 0, 0, 1>>, 1)

\* operator()(row, col) is m[col * 4 + row]
at(mat, row, col) == mat.m[col * 4 + row + 1]

\* Matrix4::operator*(const Matrix4&)
times(a, b) ==
    Matrix4([i \in 1..16 |->
               LET row == (i - 1) % 4
                   col == (i - 1) \div 4
               IN  at(a, row, 0) * at(b, 0, col) + at(a, row, 1) * at(b, 1, col)
                     + at(a, row, 2) * at(b, 2, col) + at(a, row, 3) * at(b, 3, col)],
            a.den * b.den)

\* Matrix4::translation
translation(t) ==
    Matrix4(<<1, 0, 0, 0,  0, 1, 0, 0,  0, 0, 1, 0,  t[1], t[2], t[3], 1>>, 1)

\* Matrix4::rotationX, rotationY and rotationZ for an angle whose cosine c
\* and sine s are integers (a multiple of a quarter turn)
rotationX(c, s) == Matrix4(<<1, 0, 0, 0,  0, c, s, 0,  0, -s, c, 0,  0, 0, 0, 1>>, 1)

rotationY(c, s) == Matrix4(<<c, 0, -s, 0,  0, 1, 0, 0,  s, 0, c, 0,  0, 0, 0, 1>>, 1)

rotationZ(c, s) == Matrix4(<<c, s, 0, 0,  -s, c, 0, 0,  0, 0, 1, 0,  0, 0, 0, 1>>, 1)

\* Matrix4::scale(Vector3) for the scale (sc[1], sc[2], sc[3]) / den
scale(sc, den) ==
    Matrix4(<<sc[1], 0, 0, 0,  0, sc[2], 0, 0,  0, 0, sc[3], 0,  0, 0, 0, den>>, den)

\* the numerator of Matrix4::determinant over den^4
determinantNum(mat) ==
    LET e == mat.m
    IN  e[1] * (e[6] * (e[11] * e[16] - e[15] * e[12]) - e[10] * (e[7] * e[16] - e[15] * e[8]) + e[14] * (e[7] * e[12] - e[11] * e[8]))
        - e[5] * (e[2] * (e[11] * e[16] - e[15] * e[12]) - e[10] * (e[3] * e[16] - e[15] * e[4]) + e[14] * (e[3] * e[12] - e[11] * e[4]))
        + e[9] * (e[2] * (e[7] * e[16] - e[15] * e[8]) - e[6] * (e[3] * e[16] - e[15] * e[4]) + e[14] * (e[3] * e[8] - e[7] * e[4]))
        - e[13] * (e[2] * (e[7] * e[12] - e[11] * e[8]) - e[6] * (e[3] * e[12] - e[11] * e[4]) + e[10] * (e[3] * e[8] - e[7] * e[4]))

\* 1 / DetEpsInv is the 1e-6f that inverse() compares the determinant with
DetEpsInv == 1000000

\* std::abs(det) < 1e-6f
isSingular(mat) ==
    Abs(determinantNum(mat)) <= (mat.den * mat.den * mat.den * mat.den - 1) \div DetEpsInv

\* the cofactor expressions of Matrix4::inverse, before the factor invDet
adjugate(mat) ==
    LET e == mat.m
    IN  <<(e[6] * (e[11] * e[16] - e[12] * e[15]) - e[7] * (e[10] * e[16] - e[12] * e[14]) + e[8] * (e[10] * e[15] - e[11] * e[14])),
          -(e[2] * (e[11] * e[16] - e[12] * e[15]) - e[3] * (e[10] * e[16] - e[12] * e[14]) + e[4] * (e[10] * e[15] - e[11] * e[14])),
          (e[2] * (e[7] * e[16] - e[8] * e[15]) - e[3] * (e[6] * e[16] - e[8] * e[14]) + e[4] * (e[6] * e[15] - e[7] * e[14])),
          -(e[2] * (e[7] * e[12] - e[8] * e[11]) - e[3] * (e[6] * e[12] - e[8] * e[10]) + e[4] * (e[6] * e[11] - e[7] * e[10])),
          -(e[5] * (e[11] * e[16] - e[12] * e[15]) - e[7] * (e[9] * e[16] - e[12] * e[13]) + e[8] * (e[9] * e[15] - e[11] * e[13])),
          (e[1] * (e[11] * e[16] - e[12] * e[15]) - e[3] * (e[9] * e[16] - e[12] * e[13]) + e[4] * (e[9] * e[15] - e[11] * e[13])),
          -(e[1] * (e[7] * e[16] - e[8] * e[15]) - e[3] * (e[5] * e[16] - e[8] * e[13]) + e[4] * (e[5] * e[15] - e[7] * e[13])),
          (e[1] * (e[7] * e[12] - e[8] * e[11]) - e[3] * (e[5] * e[12] - e[8] * e[9]) + e[4] * (e[5] * e[11] - e[7] * e[9])),
          (e[5] * (e[10] * e[16] - e[12] * e[14]) - e[6] * (e[9] * e[16] - e[12] * e[13]) + e[8] * (e[9] * e[14] - e[10] * e[13])),
          -(e[1] * (e[10] * e[16] - e[12] * e[14]) - e[2] * (e[9] * e[16] - e[12] * e[13]) + e[4] * (e[9] * e[14] - e[10] * e[13])),
          (e[1] * (e[6] * e[16] - e[8] * e[14]) - e[2] * (e[5] * e[16] - e[8] * e[13]) + e[4] * (e[5] * e[14] - e[6] * e[13])),
          -(e[1] * (e[6] * e[12] - e[8] * e[10]) - e[2] * (e[5] * e[12] - e[8] * e[9]) + e[4] * (e[5] * e[10] - e[6] * e[9])),
          -(e[5] * (e[10] * e[15] - e[11] * e[14]) - e[6] * (e[9] * e[15] - e[11] * e[13]) + e[7] * (e[9] * e[14] - e[10] * e[13])),
          (e[1] * (e[10] * e[15] - e[11] * e[14]) - e[2] * (e[9] * e[15] - e[11] * e[13]) + e[3] * (e[9] * e[14] - e[10] * e[13])),
          -(e[1] * (e[6] * e[15] - e[7] * e[14]) - e[2] * (e[5] * e[15] - e[7] * e[13]) + e[3] * (e[5] * e[14] - e[6] * e[13])),
          (e[1] * (e[6] * e[11] - e[7] * e[10]) - e[2] * (e[5] * e[11] - e[7] * e[9]) + e[3] * (e[5] * e[10] - e[6] * e[9]))>>

\* Matrix4::inverse: the identity for a determinant below 1e-6f in size,
\* else adjugate * (1 / det); cofactor / den^3 * den^4 / det = cofactor * den / det
inverse(mat) ==
    LET det == determinantNum(mat)
        adj == adjugate(mat)
        sign == IF det < 0 THEN -1 ELSE 1
    IN  IF isSingular(mat)
        THEN identity
        ELSE Matrix4([i \in 1..16 |-> sign * adj[i] * mat.den], Abs(det))

\* whether every entry of the matrix is that of the identity matrix
isIdentity(mat) ==
    \A i \in 1..16 : mat.m[i] = (IF (i - 1) % 5 = 0 THEN mat.den ELSE 0)

----------------------------------------------------------------------------
(* Camera *)

\* Utils::PI in degrees
PI == 180

DEG_TO_RAD == PI \div 180

\* 89.0f degrees, the pitch limit of clampPitch
MaxPitchDeg == 89

\* 0.1f world units, the minimum distance, in grid units
MinDistance == 2

clampNoLower(p) ==
    LET maxPitch == MaxPitchDeg * DEG_TO_RAD
    IN  IF maxPitch < p THEN maxPitch ELSE p

clampNarrow(p) ==
    LET maxPitch == (MaxPitchDeg - 1) * DEG_TO_RAD
    IN  IF p < -maxPitch THEN -maxPitch ELSE IF maxPitch < p THEN maxPitch ELSE p

clampPitch(p) ==
    LET maxPitch == MaxPitchDeg * DEG_TO_RAD
    IN  IF p < -maxPitch THEN -maxPitch ELSE IF maxPitch < p THEN maxPitch ELSE p

RECURSIVE yawDown(_)
yawDown(y) == IF y > PI THEN yawDown(y - 2 * PI) ELSE y

RECURSIVE yawUp(_)
yawUp(y) == IF y < -PI THEN yawUp(y + 2 * PI) ELSE y

normalizeYawNoUp(y) == yawDown(y)

normalizeYaw(y) == yawUp(yawDown(y))

CamCall(name, a, b) == [op |-> name, a |-> a, b |-> b]

\* Camera::invalidateView; the position it recomputes is derived from pitch,
\* yaw, distance and target (getPosition)
invalidateView ==
    /\ viewDirty' = TRUE
    /\ UNCHANGED <<projectionDirty, viewMatrix, projectionMatrix>>

\* Camera::invalidateProjection
invalidateProjection ==
    /\ projectionDirty' = TRUE
    /\ UNCHANGED <<viewDirty, viewMatrix, projectionMatrix>>

\* Camera::Camera()
InitCamera ==
    /\ target = ZERO
    /\ distance = 5 * OcclusionMarginInv
    /\ pitch = 0
    /\ yaw = 0
    /\ camOp = CamCall("Camera", 0, 0)
    /\ viewDirty = TRUE
    /\ projectionDirty = TRUE
    /\ viewMatrix = identity
    /\ projectionMatrix = identity
    /\ fov = 45 * DEG_TO_RAD
    /\ aspectRatio = <<16, 9>>
    /\ nearPlane = 2
    /\ farPlane = 2000

setTarget(newTarget) ==
    /\ target' = newTarget
    /\ camOp' = CamCall("setTarget", 0, 0)
    /\ UNCHANGED <<pitch, yaw, distance, projVars>>
    /\ invalidateView

setDistance(newDistance) ==
    /\ distance' = Max(MinDistance, newDistance)
    /\ camOp' = CamCall("setDistance", newDistance, 0)
    /\ UNCHANGED <<pitch, yaw, target, projVars>>
    /\ invalidateView

setPitch(newPitch) ==
    /\ pitch' = clampPitch(newPitch)
    /\ camOp' = CamCall("setPitch", newPitch, 0)
    /\ UNCHANGED <<yaw, distance, target, projVars>>
    /\ invalidateView

\* a setYaw that leaves the dirty flag as it is
setYawKeepsCache(newYaw) ==
    /\ yaw' = normalizeYaw(newYaw)
    /\ camOp' = CamCall("setYaw", newYaw, 0)
    /\ UNCHANGED <<pitch, distance, target, projVars>>
    /\ UNCHANGED cacheVars

setYaw(newYaw) ==
    /\ yaw' = normalizeYaw(newYaw)
    /\ camOp' = CamCall("setYaw", newYaw, 0)
    /\ UNCHANGED <<pitch, distance, target, projVars>>
    /\ invalidateView

orbit(deltaPitch, deltaYaw) ==
    /\ pitch' = clampPitch(pitch + deltaPitch)
    /\ yaw' = normalizeYaw(yaw + deltaYaw)
    /\ camOp' = CamCall("orbit", deltaPitch, deltaYaw)
    /\ UNCHANGED <<distance, target, projVars>>
    /\ invalidateView

\* the zoom factor is factor2 / 2
zoom(factor2) ==
    /\ (distance * factor2) % 2 = 0
    /\ distance' = Max(MinDistance, (distance * factor2) \div 2)
    /\ camOp' = CamCall("zoom", factor2, 0)
    /\ UNCHANGED <<pitch, yaw, target, projVars>>
    /\ invalidateView

setFrontView ==
    /\ pitch' = 0
    /\ yaw' = 0
    /\ camOp' = CamCall("setFrontView", 0, 0)
    /\ UNCHANGED <<distance, target, projVars>>
    /\ invalidateView

setRightView ==
    /\ pitch' = 0
    /\ yaw' = 90 * DEG_TO_RAD
    /\ camOp' = CamCall("setRightView", 0, 0)
    /\ UNCHANGED <<distance, target, projVars>>
    /\ invalidateView

setTopView ==
    /\ pitch' = -89 * DEG_TO_RAD
    /\ yaw' = 0
    /\ camOp' = CamCall("setTopView", 0, 0)
    /\ UNCHANGED <<distance, target, projVars>>
    /\ invalidateView

\* a preset that also moves the camera back to the constructed distance
setIsometricViewResetsDistance ==
    /\ pitch' = -30 * DEG_TO_RAD
    /\ yaw' = 45 * DEG_TO_RAD
    /\ distance' = 5 * OcclusionMarginInv
    /\ camOp' = CamCall("setIsometricView", 0, 0)
    /\ UNCHANGED <<target, projVars>>
    /\ invalidateView

setIsometricView ==
    /\ pitch' = -30 * DEG_TO_RAD
    /\ yaw' = 45 * DEG_TO_RAD
    /\ camOp' = CamCall("setIsometricView", 0, 0)
    /\ UNCHANGED <<distance, target, projVars>>
    /\ invalidateView

focusOnPoint(point, margin) ==
    /\ target' = point
    /\ distance' = margin
    /\ camOp' = CamCall("focusOnPoint", margin, point)
    /\ UNCHANGED <<pitch, yaw, projVars>>
    /\ invalidateView

setFOV(fovDegrees) ==
    /\ fov' = fovDegrees * DEG_TO_RAD
    /\ camOp' = CamCall("setFOV", fovDegrees, 0)
    /\ UNCHANGED <<pitch, yaw, distance, target, aspectRatio, nearPlane, farPlane>>
    /\ invalidateProjection

setAspectRatio(ratio) ==
    /\ aspectRatio' = ratio
    /\ camOp' = CamCall("setAspectRatio", ratio, 0)
    /\ UNCHANGED <<pitch, yaw, distance, target, fov, nearPlane, farPlane>>
    /\ invalidateProjection

setClippingPlanes(near, far) ==
    /\ nearPlane' = near
    /\ farPlane' = far
    /\ camOp' = CamCall("setClippingPlanes", near, far)
    /\ UNCHANGED <<pitch, yaw, distance, target, fov, aspectRatio>>
    /\ invalidateProjection

\* Matrix4::lookAt(position, target, up) for the position that updatePosition
\* derives from pitch, yaw, distance and target; the matrix is kept by the
\* values that determine it
updateViewMatrix ==
    [op |-> "lookAt", pitch |-> pitch, yaw |-> yaw, distance |-> distance,
     target |-> target]

\* Matrix4::perspective(fov, aspectRatio, nearPlane, farPlane), kept likewise
updateProjectionMatrix ==
    [op |-> "perspective", fov |-> fov, aspectRatio |-> aspectRatio,
     nearPlane |-> nearPlane, farPlane |-> farPlane]

\* getViewMatrix; camOp records whether it recomputed, and what it returned
getViewMatrix ==
    /\ viewMatrix' = IF viewDirty THEN updateViewMatrix ELSE viewMatrix
    /\ viewDirty' = FALSE
    /\ camOp' = CamCall("getViewMatrix", viewDirty, viewMatrix')
    /\ UNCHANGED <<pitch, yaw, distance, target, projVars, projectionDirty,
                   projectionMatrix>>

getProjectionMatrix ==
    /\ projectionMatrix' =
          IF projectionDirty THEN updateProjectionMatrix ELSE projectionMatrix
    /\ projectionDirty' = FALSE
    /\ camOp' = CamCall("getProjectionMatrix", projectionDirty, projectionMatrix')
    /\ UNCHANGED <<pitch, yaw, distance, target, projVars, viewDirty, viewMatrix>>

\* getViewProjectionMatrix: getProjectionMatrix() * getViewMatrix()
getViewProjectionMatrix ==
    /\ projectionMatrix' =
          IF projectionDirty THEN updateProjectionMatrix ELSE projectionMatrix
    /\ viewMatrix' = IF viewDirty THEN updateViewMatrix ELSE viewMatrix
    /\ projectionDirty' = FALSE
    /\ viewDirty' = FALSE
    /\ camOp' = CamCall("getViewProjectionMatrix", <<projectionDirty, viewDirty>>,
                        <<projectionMatrix', viewMatrix'>>)
    /\ UNCHANGED <<pitch, yaw, distance, target, projVars>>

----------------------------------------------------------------------------
(* Model: the selected vertex *)

\* std::numeric_limits<float>::max(), as the largest integer of the model
FLT_MAX == 2147483647

\* sine and cosine of the angles whose values are exact
SinDeg(a) == CASE a \in {0, 180, -180} -> 0 [] a = 90 -> 1 [] a = -90 -> -1

CosDeg(a) == CASE a = 0 -> 1 [] a \in {90, -90} -> 0 [] a \in {180, -180} -> -1

\* Camera::updatePosition and getPosition
getPosition ==
    Add(target, Vec(distance * CosDeg(pitch) * SinDeg(yaw),
                    distance * CosDeg(pitch) * CosDeg(yaw),
                    distance * SinDeg(pitch)))

\* representative of Camera::getForwardVector, for distance > 0
getForwardVector ==
    Vec(-(CosDeg(pitch) * SinDeg(yaw)), -(CosDeg(pitch) * CosDeg(yaw)), -SinDeg(pitch))

\* 100 * sin and 100 * cos of the angles that the presets and the argument
\* sets of the Camera calls produce, rounded to integers
SinOf(a) ==
    CASE a \in {0, 180} -> 0 [] a = 30 -> 50 [] a \in {45, 135} -> 71
      [] a \in {89, 90} -> 100

Sin100(a) == IF a < 0 THEN -SinOf(-a) ELSE SinOf(a)

Cos100(a) ==
    CASE Abs(a) = 0 -> 100 [] Abs(a) = 30 -> 87 [] Abs(a) = 45 -> 71 [] Abs(a) = 89 -> 2
      [] Abs(a) = 90 -> 0 [] Abs(a) = 135 -> -71 [] Abs(a) = 180 -> -100

\* Camera::up
WorldUp == Vec(0, 0, 1)

\* position - target as updatePosition computes it, in 1/10000 grid units
positionOffset ==
    Vec(distance * Cos100(pitch) * Sin100(yaw),
        distance * Cos100(pitch) * Cos100(yaw),
        distance * Sin100(pitch) * 100)

\* representative of (target - position).normalized(): the offset negated,
\* without the positive factor |distance|
forwardDirection ==
    Vec(-Sign(distance) * Cos100(pitch) * Sin100(yaw),
        -Sign(distance) * Cos100(pitch) * Cos100(yaw),
        -Sign(distance) * Sin100(pitch) * 100)

\* representative of v.normalized(): v without the common factor of its
\* components (the zero vector for the zero vector)
normalized(v) ==
    LET g == GCD(GCD(Abs(v[1]), Abs(v[2])), Abs(v[3]))
    IN  IF g = 0 THEN ZERO ELSE Vec(v[1] \div g, v[2] \div g, v[3] \div g)

\* representative of Camera::getRightVector: cross(forward, up).normalized()
getRightVector == normalized(Cross(forwardDirection, WorldUp))

\* representative of Camera::getUpVector: cross(forward, right)
getUpVector == Cross(forwardDirection, getRightVector)

\* representative of the newUp of Matrix4::lookAt(position, target, up):
\* right = cross(forward, up).normalized(), newUp = cross(right, forward)
lookAtUp == Cross(normalized(Cross(forwardDirection, WorldUp)), forwardDirection)

\* a validity test without the lower limit
isVertexIndexValidNoLower(index) == index < Len(vertices)

isVertexIndexValid(index) == index >= 0 /\ index < Len(vertices)

hasSelection == selectedVertexIndex >= 0

\* the index stored by setSelectedVertex(index)
setSelectedVertexValue(index) ==
    IF isVertexIndexValid(index) THEN index ELSE selectedVertexIndex

\* the index stored by clearSelection()
clearSelectionValue == IF selectedVertexIndex >= 0 THEN -1 ELSE selectedVertexIndex

\* "hit.hit && hit.distance < closestDistance", the other way round
isNearerLoose(hit, closest) == hit.hit /\ hit.distance <= closest.distance

isNearer(hit, closest) == hit.hit /\ hit.distance < closest.distance

\* one pass of the vertex loop for a visible vertex: the closest hit so far,
\* as [idx, distance]
closerOf(hit, closest) ==
    IF isNearer(hit, closest)
    THEN [idx |-> hit.vertexIndex, distance |-> hit.distance]
    ELSE closest

\* the vertex loop of selectVertex from index i on
RECURSIVE scanVertices(_, _, _, _, _)
scanVertices(i, closest, ray, dynamicThreshold, cameraPos) ==
    IF i >= Len(vertices) THEN closest
    ELSE scanVertices(i + 1,
             IF ~isVertexVisible(cameraPos, vertices[i + 1], vertices, faces)
             THEN closest
             ELSE closerOf(intersectVertex(ray, vertices[i + 1], dynamicThreshold, i),
                           closest),
             ray, dynamicThreshold, cameraPos)

\* baseThreshold * cameraDistance * 0.1f, baseThreshold given in hundredths
dynamicThresholdOf(baseThreshold, cameraDistance) ==
    Frac(baseThreshold * cameraDistance, 100 * 10)

deselectionThresholdSame(dynamicThreshold) == dynamicThreshold

\* dynamicThreshold * 2.0f
deselectionThresholdOf(dynamicThreshold) ==
    Frac(dynamicThreshold.num * 2, dynamicThreshold.den)

SelCall(done, ray, base, ret, prev) ==
    [done |-> done, ray |-> ray, base |-> base, ret |-> ret, prev |-> prev,
     post |-> selectedVertexIndex']

\* what lies behind the last vertex of the array is not defined: a position
\* on the origin or one far from every ray
BeyondVertices == {ZERO, Vec(0, 0, 1000 * OcclusionMarginInv)}

\* vertices[selectedVertexIndex].position
selectedPos ==
    IF isVertexIndexValid(selectedVertexIndex)
    THEN {vertices[selectedVertexIndex + 1]}
    ELSE BeyondVertices

selectVertex(ray, baseThreshold) ==
    LET dynamicThreshold == dynamicThresholdOf(baseThreshold, distance)
        deselectionThreshold == deselectionThresholdOf(dynamicThreshold)
    IN  /\ \E closest \in {scanVertices(0, [idx |-> -1, distance |-> FLT_MAX],
                                         ray, dynamicThreshold, getPosition)},
               selected \in selectedPos :
               IF closest.idx = -1
               THEN IF hasSelection
                       /\ ~isWithin(rayPointDistance(ray, selected),
                                    deselectionThreshold)
                    THEN /\ selectedVertexIndex' = clearSelectionValue
                         /\ selCall' = SelCall(TRUE, ray, baseThreshold, TRUE,
                                               selectedVertexIndex)
                    ELSE /\ selectedVertexIndex' = selectedVertexIndex
                         /\ selCall' = SelCall(TRUE, ray, baseThreshold, FALSE,
                                               selectedVertexIndex)
               ELSE /\ selectedVertexIndex' = setSelectedVertexValue(closest.idx)
                    /\ selCall' = SelCall(TRUE, ray, baseThreshold, TRUE,
                                          selectedVertexIndex)
        /\ UNCHANGED <<vertices, faces, disableVisibilityCheck>>

setSelectedVertex(index) ==
    /\ selectedVertexIndex' = setSelectedVertexValue(index)
    /\ UNCHANGED <<vertices, faces, disableVisibilityCheck, selCall>>

clearSelection ==
    /\ selectedVertexIndex' = clearSelectionValue
    /\ UNCHANGED <<vertices, faces, disableVisibilityCheck, selCall>>

setDisableVisibilityCheck(disable) ==
    /\ disableVisibilityCheck' = disable
    /\ UNCHANGED <<vertices, faces, selectedVertexIndex, selCall>>

\* Vertex(): normal(0, 0, 1)
DefaultNormal == [up |-> TRUE, sum |-> <<>>]

\* isFaceValid and isEdgeValid for a model with the vertices verts
isFaceValid(face, verts) ==
    /\ \A k \in 1..3 : face[k] >= 0 /\ face[k] < Len(verts)
    /\ face[1] # face[2] /\ face[2] # face[3] /\ face[3] # face[1]

isEdgeValid(edge, verts) ==
    /\ \A k \in 1..2 : edge[k] >= 0 /\ edge[k] < Len(verts)
    /\ edge[1] # edge[2]

\* the face normals calculateNormals adds up for vertex index i, as the cross
\* products whose directions they are (a zero cross product adds nothing)
RECURSIVE faceNormalsAt(_, _, _, _)
faceNormalsAt(i, k, verts, fcs) ==
    IF k > Len(fcs) THEN <<>>
    ELSE LET n == Cross(Sub(verts[fcs[k][2] + 1], verts[fcs[k][1] + 1]),
                        Sub(verts[fcs[k][3] + 1], verts[fcs[k][1] + 1]))
         IN  (IF isFaceValid(fcs[k], verts) /\ i \in {fcs[k][1], fcs[k][2], fcs[k][3]}
                   /\ n # ZERO
              THEN <<n>> ELSE <<>>) \o faceNormalsAt(i, k + 1, verts, fcs)

\* "length > 0.001f" fails for no face normal and for two opposite ones
\* (more than two are not added up in the model)
sumIsZero(sum) ==
    \/ sum = <<>>
    \/ Len(sum) = 2 /\ Cross(sum[1], sum[2]) = ZERO /\ Dot(sum[1], sum[2]) < 0

\* calculateNormals: the normalized sum of the unit face normals, kept as the
\* sequence of the normals added up, or the default (0, 0, 1)
calculateNormals(verts, fcs) ==
    [i \in 1..Len(verts) |->
        LET sum == faceNormalsAt(i - 1, 1, verts, fcs)
        IN  IF sumIsZero(sum) THEN DefaultNormal ELSE [up |-> FALSE, sum |-> sum]]

\* erase(begin() + index)
eraseAt(seq, index) ==
    [k \in 1..(Len(seq) - 1) |-> IF k <= index THEN seq[k] ELSE seq[k + 1]]

\* if (v > index) v--
shifted(indices, index) ==
    [k \in 1..Len(indices) |-> IF indices[k] > index THEN indices[k] - 1 ELSE indices[k]]

\* remove_if over the faces or edges that reference index, without the shift
withoutVertexUnshifted(seq, index) ==
    SelectSeq(seq, LAMBDA el : \A k \in 1..Len(el) : el[k] # index)

\* remove_if over the faces or edges that reference index, then the shift
withoutVertex(seq, index) ==
    LET kept == SelectSeq(seq, LAMBDA el : \A k \in 1..Len(el) : el[k] # index)
    IN  [k \in 1..Len(kept) |-> shifted(kept[k], index)]

EditCall(name, index) == [op |-> name, index |-> index]

\* addVertex(position)
addVertex(position) ==
    /\ vertices' = Append(vertices, position)
    /\ normals' = Append(normals, DefaultNormal)
    /\ isModified' = TRUE
    /\ editOp' = EditCall("addVertex", Len(vertices))
    /\ UNCHANGED <<faces, edges, selectedVertexIndex>>

\* addFace(v1, v2, v3)
addFace(face) ==
    /\ IF isFaceValid(face, vertices)
       THEN faces' = Append(faces, face) /\ isModified' = TRUE
       ELSE UNCHANGED <<faces, isModified>>
    /\ editOp' = EditCall("addFace", Len(faces))
    /\ UNCHANGED <<vertices, normals, edges, selectedVertexIndex>>

\* addEdge(v1, v2)
addEdge(edge) ==
    /\ IF isEdgeValid(edge, vertices)
       THEN edges' = Append(edges, edge) /\ isModified' = TRUE
       ELSE UNCHANGED <<edges, isModified>>
    /\ editOp' = EditCall("addEdge", Len(edges))
    /\ UNCHANGED <<vertices, normals, faces, selectedVertexIndex>>

\* removeVertex(index)
removeVertex(index) ==
    /\ IF ~isVertexIndexValid(index)
       THEN UNCHANGED <<vertices, normals, faces, edges, isModified>>
       ELSE /\ vertices' = eraseAt(vertices, index)
            /\ normals' = eraseAt(normals, index)
            /\ faces' = withoutVertex(faces, index)
            /\ edges' = withoutVertex(edges, index)
            /\ isModified' = TRUE
    /\ editOp' = EditCall("removeVertex", index)
    /\ UNCHANGED selectedVertexIndex

\* setVertexPosition(index, position)
setVertexPosition(index, position) ==
    /\ IF isVertexIndexValid(index)
       THEN /\ vertices' = [vertices EXCEPT ![index + 1] = position]
            /\ normals' = calculateNormals(vertices', faces)
            /\ isModified' = TRUE
       ELSE UNCHANGED <<vertices, normals, isModified>>
    /\ editOp' = EditCall("setVertexPosition", index)
    /\ UNCHANGED <<faces, edges, selectedVertexIndex>>

\* setSelectedVertex(index) on the model being edited
selectForEdit(index) ==
    /\ selectedVertexIndex' = setSelectedVertexValue(index)
    /\ editOp' = EditCall("setSelectedVertex", index)
    /\ UNCHANGED <<vertices, normals, faces, edges, isModified>>

\* removeFace(index)
removeFace(index) ==
    /\ IF index >= 0 /\ index < Len(faces)
       THEN faces' = eraseAt(faces, index) /\ isModified' = TRUE
       ELSE UNCHANGED <<faces, isModified>>
    /\ editOp' = EditCall("removeFace", index)
    /\ UNCHANGED <<vertices, normals, edges, selectedVertexIndex>>

\* removeEdge(index)
removeEdge(index) ==
    /\ IF index >= 0 /\ index < Len(edges)
       THEN edges' = eraseAt(edges, index) /\ isModified' = TRUE
       ELSE UNCHANGED <<edges, isModified>>
    /\ editOp' = EditCall("removeEdge", index)
    /\ UNCHANGED <<vertices, normals, faces, selectedVertexIndex>>

\* Model::clear(): vertices, faces and edges emptied; the selected index is
\* not among the members it assigns
clearModel ==
    /\ vertices' = <<>>
    /\ normals' = <<>>
    /\ faces' = <<>>
    /\ edges' = <<>>
    /\ isModified' = FALSE
    /\ editOp' = EditCall("clear", 0)
    /\ UNCHANGED selectedVertexIndex

\* addEdgeToSet(v1, v2): the pair with the smaller index first
addEdgeToSet(v1, v2) == IF v1 > v2 THEN <<v2, v1>> ELSE <<v1, v2>>

\* the std::set of the pairs of every valid face
edgeSet(fcs, verts) ==
    UNION {{addEdgeToSet(fcs[k][1], fcs[k][2]), addEdgeToSet(fcs[k][2], fcs[k][3]),
            addEdgeToSet(fcs[k][3], fcs[k][1])} :
              k \in {j \in 1..Len(fcs) : isFaceValid(fcs[j], verts)}}

\* the order of std::pair<int, int>
pairBefore(a, b) == a[1] < b[1] \/ (a[1] = b[1] /\ a[2] < b[2])

\* the pairs of a std::set in the order its iteration gives them
RECURSIVE inOrder(_)
inOrder(pairs) ==
    IF pairs = {} THEN <<>>
    ELSE LET first == CHOOSE a \in pairs : \A b \in pairs \ {a} : pairBefore(a, b)
         IN  <<first>> \o inOrder(pairs \ {first})

\* generateEdgesFromFaces(): the edges that were there are dropped
generateEdgesFromFaces(fcs, verts) == inOrder(edgeSet(fcs, verts))

\* the faces that a run of addFace calls on a model without faces stores
RECURSIVE addFaces(_, _)
addFaces(fcs, verts) ==
    IF fcs = <<>> THEN <<>>
    ELSE (IF isFaceValid(Head(fcs), verts) THEN <<Head(fcs)>> ELSE <<>>)
           \o addFaces(Tail(fcs), verts)

\* clear(), the addVertex and addFace calls, calculateNormals() and
\* generateEdgesFromFaces() of createCube, createTriangle and createQuad
create(name, positions, fcs) ==
    /\ vertices' = positions
    /\ faces' = addFaces(fcs, positions)
    /\ normals' = calculateNormals(vertices', faces')
    /\ edges' = generateEdgesFromFaces(faces', vertices')
    /\ isModified' = TRUE
    /\ editOp' = EditCall(name, Len(positions))
    /\ UNCHANGED selectedVertexIndex

\* createCube(size), size an even number of grid units
createCube(size) ==
    LET half == size \div 2
    IN  create("createCube",
               <<Vec(-half, -half, -half), Vec(half, -half, -half),
                 Vec(half, half, -half), Vec(-half, half, -half),
                 Vec(-half, -half, half), Vec(half, -half, half),
                 Vec(half, half, half), Vec(-half, half, half)>>,
               <<<<0, 2, 1>>, <<0, 3, 2>>, <<4, 5, 6>>, <<4, 6, 7>>,
                 <<0, 1, 5>>, <<0, 5, 4>>, <<2, 7, 6>>, <<2, 3, 7>>,
                 <<0, 4, 7>>, <<0, 7, 3>>, <<1, 6, 5>>, <<1, 2, 6>>>>)

\* createTriangle(): (0, 0, 0), (1, 0, 0), (0.5, 1, 0) in grid units
createTriangle ==
    create("createTriangle",
           <<ZERO, Vec(OcclusionMarginInv, 0, 0),
             Vec(OcclusionMarginInv \div 2, OcclusionMarginInv, 0)>>,
           <<<<0, 1, 2>>>>)

\* createQuad(): the unit square in grid units
createQuad ==
    create("createQuad",
           <<ZERO, Vec(OcclusionMarginInv, 0, 0),
             Vec(OcclusionMarginInv, OcclusionMarginInv, 0),
             Vec(0, OcclusionMarginInv, 0)>>,
           <<<<0, 1, 2>>, <<0, 2, 3>>>>)

\* isValid()
isValid ==
    /\ \A k \in 1..Len(faces) : isFaceValid(faces[k], vertices)
    /\ \A k \in 1..Len(edges) : isEdgeValid(edges[k], vertices)

NoSelCall ==
    [done |-> FALSE, ray |-> Ray(ZERO, ZERO), base |-> 0, ret |-> FALSE, prev |-> -1,
     post |-> -1]

\* no edges, every vertex as constructed, and no editing call made yet
IdleEdit ==
    /\ edges = <<>>
    /\ isModified = FALSE
    /\ normals = [i \in 1..Len(vertices) |-> DefaultNormal]
    /\ editOp = [op |-> "Model", index |-> 0]

\* Model::Model(), with no geometry
IdleModel ==
    /\ vertices = <<>>
    /\ IdleEdit
    /\ faces = <<>>
    /\ selectedVertexIndex = -1
    /\ disableVisibilityCheck = FALSE
    /\ selCall = NoSelCall

IdleTri ==
    /\ triIn = [ray |-> Ray(ZERO, ZERO), v0 |-> ZERO, v1 |-> ZERO, v2 |-> ZERO]
    /\ triOut = [done |-> TRUE, res |-> NoTriangleHit]

\* no isVertexVisible call under way
IdleVis ==
    /\ visIn = [cameraPos |-> ZERO, vertex |-> ZERO]
    /\ visOut = [done |-> TRUE, visible |-> TRUE]

----------------------------------------------------------------------------
(* SoftwareRenderer: the color of a ray *)

\* Distances along a ray are counted in units of config.rayEpsilon (0.001f).
RayEpsilon == 1

\* A ray is named by a number: 0 is the primary ray of the pixel and 1 is any
\* ray reflected off a triangle.  castIn holds, for each of the two, the result
\* that the intersection routine returns for every primitive, in the order of
\* the renderer's lists.
hitsOf(in, ray) == IF ray = 0 THEN in.primary ELSE in.reflected

\* Ray reflectedRay(offsetPoint, reflectedDir)
reflectedRay(ray) == 1

\* Colors are kept apart by what they are made of: the sky color of a ray, the
\* white of a vertex, the gray of an edge, the color of a line, and the shade of
\* a triangle side blended with the color its reflected ray returned.
calculateSkyboxColor(ray) == [kind |-> "sky", of |-> ray, reflected |-> <<>>]

White == [kind |-> "white", of |-> 0, reflected |-> <<>>]

LightGray == [kind |-> "gray", of |-> 0, reflected |-> <<>>]

lineColor(line) == [kind |-> "line", of |-> line.color, reflected |-> <<>>]

finalColor(hit, reflected) ==
    [kind |-> "face", of |-> IF hit.isFrontFace THEN 1 ELSE 0, reflected |-> reflected]

\* closestDistance, hitFound and hitColor at the start of castRay
NoHitFound == [closestDistance |-> FLT_MAX, hitFound |-> FALSE, hitColor |-> White]

\* hit.hit && hit.distance < closestDistance && hit.distance > config.rayEpsilon
isCloserHit(hit, st) ==
    hit.hit /\ hit.distance < st.closestDistance /\ hit.distance > RayEpsilon

found(hit, color) == [closestDistance |-> hit.distance, hitFound |-> TRUE, hitColor |-> color]

RECURSIVE castVertices(_, _, _)
castVertices(i, hits, st) ==
    IF i > Len(hits) THEN st
    ELSE castVertices(i + 1, hits,
                      IF isCloserHit(hits[i], st) THEN found(hits[i], White) ELSE st)

RECURSIVE castEdges(_, _, _)
castEdges(i, hits, st) ==
    IF i > Len(hits) THEN st
    ELSE castEdges(i + 1, hits,
                   IF isCloserHit(hits[i], st) THEN found(hits[i], LightGray) ELSE st)

RECURSIVE castLines(_, _, _)
castLines(i, hits, st) ==
    IF i > Len(hits) THEN st
    ELSE castLines(i + 1, hits,
                   IF isCloserHit(hits[i], st) THEN found(hits[i], lineColor(hits[i]))
                   ELSE st)

afterVertices(in, ray) ==
    IF in.config.showVertices
    THEN castVertices(1, hitsOf(in, ray).vertices, NoHitFound)
    ELSE NoHitFound

afterEdges(in, ray) ==
    IF in.config.showEdges
    THEN castEdges(1, hitsOf(in, ray).edges, afterVertices(in, ray))
    ELSE afterVertices(in, ray)

afterLines(in, ray) ==
    IF in.config.showCoordinateAxes
    THEN castLines(1, hitsOf(in, ray).lines, afterEdges(in, ray))
    ELSE afterEdges(in, ray)

\* a depth check that lets one more level through
atMaxDepthLate(in, depth) == depth > in.reflectionConfig.maxReflectionDepth

\* if (depth >= reflectionConfig.maxReflectionDepth)
atMaxDepth(in, depth) == depth >= in.reflectionConfig.maxReflectionDepth

RECURSIVE castRay(_, _, _)

\* the triangle loop; the reflected ray is cast as soon as a triangle becomes
\* the closest hit
RECURSIVE castTriangles(_, _, _, _, _)
castTriangles(i, in, ray, depth, st) ==
    IF i > Len(hitsOf(in, ray).triangles) THEN st
    ELSE castTriangles(i + 1, in, ray, depth,
             IF isCloserHit(hitsOf(in, ray).triangles[i], st)
             THEN found(hitsOf(in, ray).triangles[i],
                        finalColor(hitsOf(in, ray).triangles[i],
                                   IF in.reflectionConfig.enableReflection
                                   THEN <<castRay(in, reflectedRay(ray), depth + 1)>>
                                   ELSE <<>>))
             ELSE st)

afterTriangles(in, ray, depth) ==
    IF in.config.showFaces
    THEN castTriangles(1, in, ray, depth, afterLines(in, ray))
    ELSE afterLines(in, ray)

hitColorOrSky(st, ray) ==
    IF st.hitFound THEN st.hitColor ELSE calculateSkyboxColor(ray)

castRay(in, ray, depth) ==
    IF atMaxDepth(in, depth)
    THEN calculateSkyboxColor(ray)
    ELSE hitColorOrSky(afterTriangles(in, ray, depth), ray)

\* the number of intersection tests one invocation makes past the depth check
testsOf(in, ray) ==
    (IF in.config.showVertices THEN Len(hitsOf(in, ray).vertices) ELSE 0)
      + (IF in.config.showEdges THEN Len(hitsOf(in, ray).edges) ELSE 0)
      + (IF in.config.showCoordinateAxes THEN Len(hitsOf(in, ray).lines) ELSE 0)
      + (IF in.config.showFaces THEN Len(hitsOf(in, ray).triangles) ELSE 0)

\* one invocation castRay(ray, depth): its arguments, the number of primitives
\* it tested and the color it returned
Invocation(in, ray, depth) ==
    [ray |-> ray, depth |-> depth,
     tests |-> IF atMaxDepth(in, depth) THEN 0 ELSE testsOf(in, ray),
     color |-> castRay(in, ray, depth)]

RECURSIVE castRayCalls(_, _, _)

\* the invocations made inside the triangle loop, in call order; st is the
\* closest hit so far, as in castTriangles
RECURSIVE trianglesCalls(_, _, _, _, _)
trianglesCalls(i, in, ray, depth, st) ==
    IF i > Len(hitsOf(in, ray).triangles) THEN <<>>
    ELSE IF isCloserHit(hitsOf(in, ray).triangles[i], st)
         THEN (IF in.reflectionConfig.enableReflection
               THEN castRayCalls(in, reflectedRay(ray), depth + 1)
               ELSE <<>>)
              \o trianglesCalls(i + 1, in, ray, depth,
                                found(hitsOf(in, ray).triangles[i], White))
         ELSE trianglesCalls(i + 1, in, ray, depth, st)

\* the invocation castRay(ray, depth) followed by those it makes
castRayCalls(in, ray, depth) ==
    <<Invocation(in, ray, depth)>>
      \o (IF atMaxDepth(in, depth) \/ ~in.config.showFaces THEN <<>>
          ELSE trianglesCalls(1, in, ray, depth, afterLines(in, ray)))

NoHits == [vertices |-> <<>>, edges |-> <<>>, lines |-> <<>>, triangles |-> <<>>]

\* RenderConfig and ReflectionConfig as constructed
DefaultRenderConfig ==
    [showVertices |-> TRUE, showEdges |-> TRUE, showFaces |-> TRUE,
     showCoordinateAxes |-> TRUE]

DefaultReflectionConfig == [enableReflection |-> FALSE, maxReflectionDepth |-> 5]

\* no pixel being rendered
IdleCast ==
    /\ castIn = [config |-> DefaultRenderConfig,
                 reflectionConfig |-> DefaultReflectionConfig,
                 primary |-> NoHits, reflected |-> NoHits]
    /\ castOut = [done |-> TRUE, color |-> calculateSkyboxColor(0)]
    /\ castLog = <<>>

\* no RayIntersection call in progress
----------------------------------------------------------------------------
(* Parts that take no part in a run *)

\* no inverse() call is in progress
IdleMath ==
    /\ matIn = identity
    /\ matOut = [done |-> TRUE]

----------------------------------------------------------------------------
(* InputHandler *)

\* "abs(deltaX) > 100.0": the movement in pixels above which a cursor event
\* is ignored
AbnormalPixels == 100

\* "abs(deltaX) >= 0.5", the movement from which a cursor event counts, as
\* 1 / JitterInv pixels
JitterInv == 2

\* cursor coordinates are counted in quarter pixels
PixelInv == 2 * JitterInv

\* orbitSensitivity, in degrees per pixel: setOrbitSensitivity(2 * Utils::PI),
\* which makes a quarter pixel a quarter turn
orbitSensitivity == (PI \div 2) * PixelInv

\* GLFW_PRESS and GLFW_RELEASE
GLFW_PRESS == "PRESS"

GLFW_RELEASE == "RELEASE"

\* GLFW_MOUSE_BUTTON_LEFT is 0 and GLFW_MOUSE_BUTTON_MIDDLE is 2;
\* mouseButtons[button] is mouseButtons[button + 1] here
GLFW_MOUSE_BUTTON_LEFT == "LEFT"

GLFW_MOUSE_BUTTON_MIDDLE == "MIDDLE"

MouseButtonIndex(button) ==
    CASE button = GLFW_MOUSE_BUTTON_LEFT -> 0
      [] button = "RIGHT" -> 1
      [] button = GLFW_MOUSE_BUTTON_MIDDLE -> 2
      [] OTHER -> 3

\* InputHandler(window, camera): no model, nothing pressed, firstMouse set
InputHandlerInit ==
    [currentMode |-> "NORMAL", mouseButtons |-> <<FALSE, FALSE, FALSE>>,
     lastMouseX |-> 0, lastMouseY |-> 0, mouseDeltaX |-> 0, mouseDeltaY |-> 0,
     firstMouse |-> TRUE, keysPressed |-> {}]

InputCall(name, a, b, orbited, events) ==
    [op |-> name, a |-> a, b |-> b, orbit |-> orbited, cursorEvents |-> events]

\* the number of cursor-position events since the last middle-button press
\* counts up to 2
MoreCursorEvents == IF inputOp.cursorEvents < 2 THEN inputOp.cursorEvents + 1 ELSE 2

\* setMode(mode); the cursor mode of the window is not part of the model
setMode(h, mode) == [h EXCEPT !.currentMode = mode]

\* abs(delta) as the comparisons of cursorPosCallback see it: the int abs(int)
\* of <cstdlib> drops the fraction of a pixel
absDelta(delta) ==
    IF absIsInt THEN (Abs(delta) \div PixelInv) * PixelInv ELSE Abs(delta)

\* (abs(deltaX) > 100.0 || abs(deltaY) > 100.0)
isAbnormalMovement(deltaX, deltaY) ==
    \/ absDelta(deltaX) > AbnormalPixels * PixelInv
    \/ absDelta(deltaY) > AbnormalPixels * PixelInv

\* (abs(deltaX) >= 0.5 || abs(deltaY) >= 0.5)
isMeaningfulMovement(deltaX, deltaY) ==
    \/ absDelta(deltaX) * JitterInv >= PixelInv
    \/ absDelta(deltaY) * JitterInv >= PixelInv

\* whether handleCameraOrbit() calls camera->orbit: deltaX != 0.0 || deltaY != 0.0
orbits(h) == h.mouseDeltaX # 0 \/ h.mouseDeltaY # 0

\* handleCameraOrbit(): deltaPitch = deltaY * orbitSensitivity, deltaYaw =
\* -deltaX * orbitSensitivity
handleCameraOrbit(h) ==
    IF orbits(h)
    THEN orbit((h.mouseDeltaY * orbitSensitivity) \div PixelInv,
               (-h.mouseDeltaX * orbitSensitivity) \div PixelInv)
    ELSE UNCHANGED camVars

\* twice the zoom factor of handleCameraZoom(yoffset): 1.0f - yoffset *
\* zoomSensitivity (0.1f), at most 2.0f; for yoffset a multiple of 5 up to 5
zoomFactor2(yoffset) ==
    LET factor2 == 2 - yoffset \div 5 IN IF factor2 > 4 THEN 4 ELSE factor2

\* handleCameraZoom(yoffset)
handleCameraZoom(yoffset) == zoom(zoomFactor2(yoffset))

\* GLFW_KEY_1, GLFW_KEY_3, GLFW_KEY_5, GLFW_KEY_7 and GLFW_KEY_ESCAPE
PresetKeys == {"1", "3", "5", "7"}

\* handlePresetViews(): the first pressed key of 1, 3, 7, 5 decides
handlePresetViews(keysPressed) ==
    IF "1" \in keysPressed THEN setFrontView
    ELSE IF "3" \in keysPressed THEN setRightView
    ELSE IF "7" \in keysPressed THEN setTopView
    ELSE IF "5" \in keysPressed THEN setIsometricView
    ELSE UNCHANGED camVars

\* mouseButtonCallback(window, button, action, mods); without a model a left
\* click selects nothing
mouseButtonCallback(button, action) ==
    LET index == MouseButtonIndex(button)
        pressed == [handler EXCEPT !.mouseButtons[index + 1] = (action = GLFW_PRESS)]
    IN  /\ handler' =
               IF index >= 3 THEN handler
               ELSE IF button = GLFW_MOUSE_BUTTON_MIDDLE /\ action = GLFW_PRESS
               THEN [setMode(pressed, "CAMERA_ORBIT") EXCEPT
                        !.lastMouseX = cursor[1], !.lastMouseY = cursor[2],
                        !.firstMouse = TRUE]
               ELSE IF button = GLFW_MOUSE_BUTTON_MIDDLE /\ action = GLFW_RELEASE
               THEN setMode(pressed, "NORMAL")
               ELSE pressed
        /\ inputOp' = InputCall("mouseButton", button, action, FALSE,
                                IF button = GLFW_MOUSE_BUTTON_MIDDLE /\ action = GLFW_PRESS
                                THEN 0 ELSE inputOp.cursorEvents)
        /\ UNCHANGED <<cursor, camVars>>

\* cursorPosCallback(window, xpos, ypos)
cursorPosCallback(xpos, ypos) ==
    LET deltaX == xpos - handler.lastMouseX
        deltaY == ypos - handler.lastMouseY
        moved == [handler EXCEPT !.lastMouseX = xpos, !.lastMouseY = ypos]
        stored == [moved EXCEPT !.mouseDeltaX = deltaX, !.mouseDeltaY = deltaY]
    IN  /\ cursor' = <<xpos, ypos>>
        /\ IF handler.firstMouse
           THEN /\ handler' = [moved EXCEPT !.firstMouse = FALSE]
                /\ inputOp' = InputCall("cursorPos", xpos, ypos, FALSE, MoreCursorEvents)
                /\ UNCHANGED camVars
           ELSE IF handler.currentMode # "CAMERA_ORBIT"
           THEN /\ handler' = moved
                /\ inputOp' = InputCall("cursorPos", xpos, ypos, FALSE, MoreCursorEvents)
                /\ UNCHANGED camVars
           ELSE IF isAbnormalMovement(deltaX, deltaY)
                   \/ ~isMeaningfulMovement(deltaX, deltaY)
           THEN /\ handler' = stored
                /\ inputOp' = InputCall("cursorPos", xpos, ypos, FALSE, MoreCursorEvents)
                /\ UNCHANGED camVars
           ELSE /\ handler' = stored
                /\ inputOp' = InputCall("cursorPos", xpos, ypos, orbits(stored),
                                        MoreCursorEvents)
                /\ handleCameraOrbit(stored)

\* scrollCallback(window, xoffset, yoffset)
scrollCallback(yoffset) ==
    /\ handleCameraZoom(yoffset)
    /\ inputOp' = InputCall("scroll", 0, yoffset, FALSE, inputOp.cursorEvents)
    /\ UNCHANGED <<handler, cursor>>

\* keyCallback(window, key, scancode, action, mods); the request to close the
\* window on GLFW_KEY_ESCAPE is not part of the model
keyCallback(key, action) ==
    /\ handler' =
           IF action = GLFW_PRESS
           THEN [handler EXCEPT !.keysPressed = @ \cup {key}]
           ELSE IF action = GLFW_RELEASE
           THEN [handler EXCEPT !.keysPressed = @ \ {key}]
           ELSE handler
    /\ IF action = GLFW_PRESS /\ key \in PresetKeys
       THEN handlePresetViews(handler'.keysPressed)
       ELSE UNCHANGED camVars
    /\ inputOp' = InputCall("key", key, action, FALSE, inputOp.cursorEvents)
    /\ UNCHANGED cursor

\* update()
update ==
    /\ handlePresetViews(handler.keysPressed)
    /\ inputOp' = InputCall("update", 0, 0, FALSE, inputOp.cursorEvents)
    /\ UNCHANGED <<handler, cursor>>

\* no callback delivered yet
NoInputCall == InputCall("InputHandler", 0, 0, FALSE, 2)

\* an InputHandler as constructed, with the cursor in the corner of the window
IdleInput ==
    /\ handler = InputHandlerInit
    /\ cursor = <<0, 0>>
    /\ inputOp = NoInputCall

\* the state of the parts that take no part in a run
IdleMore == IdleMath /\ IdleInput

IdleRay ==
    /\ rayIn = [op |-> "none"]
    /\ rayOut = [done |-> TRUE]
    /\ absIsInt = TRUE

\* int width = 640; int height = 480; std::vector<Vector3> pixels;
DefaultWidth == 640

DefaultHeight == 480

\* a SoftwareRenderer as constructed
IdleRenderer ==
    /\ width = DefaultWidth
    /\ height = DefaultHeight
    /\ pixels = [size |-> 0, content |-> "none"]
    /\ triangles = <<>>
    /\ rendCamera = [pos |-> Vec(0, 0, 5 * OcclusionMarginInv), target |-> ZERO,
                     fov |-> 45 * DEG_TO_RAD]
    /\ rendOp = "SoftwareRenderer"
    /\ fault = FALSE

\* std::fill(pixels.begin(), pixels.end(), clearColor)
clearPixels(p, clearColor) ==
    IF p.size = 0 THEN p ELSE [p EXCEPT !.content = clearColor]

\* setResolution: pixels.resize(width * height) throws when the product is
\* negative (it is converted to size_t), after width and height are assigned
setResolution(newWidth, newHeight) ==
    /\ width' = newWidth
    /\ height' = newHeight
    /\ IF newWidth * newHeight < 0
       THEN fault' = TRUE /\ pixels' = pixels
       ELSE /\ pixels' = clearPixels([size |-> newWidth * newHeight,
                                      content |-> "none"], "background")
            /\ fault' = fault
    /\ UNCHANGED <<triangles, rendCamera>>

\* initialize: setResolution(width, height)
initialize == setResolution(width, height)

\* shutdown: pixels.clear(); triangles.clear();
shutdown ==
    /\ pixels' = [size |-> 0, content |-> "none"]
    /\ triangles' = <<>>
    /\ UNCHANGED <<width, height, rendCamera, fault>>

\* clear(clearColor)
clear(clearColor) ==
    /\ pixels' = clearPixels(pixels, clearColor)
    /\ UNCHANGED <<width, height, triangles, rendCamera, fault>>

\* render(): pixels[y * width + x] = color for y < height and x < width.  The
\* last index written is width * height - 1; a write at or beyond pixels.size()
\* is outside the array, and what it does to the array is not defined.
render ==
    /\ IF width <= 0 \/ height <= 0
       THEN UNCHANGED <<pixels, fault>>
       ELSE IF width * height <= pixels.size
       THEN pixels' = [pixels EXCEPT !.content = "rendered"] /\ fault' = fault
       ELSE /\ fault' = TRUE
            /\ pixels' \in {pixels, clearPixels(pixels, "rendered")}
    /\ UNCHANGED <<width, height>>

\* the triangles render(model, camera) makes of the faces: a face with an index
\* that is not below vertices.size() (compared as a size_t) makes none
RECURSIVE trianglesOf(_, _, _)
trianglesOf(i, verts, fcs) ==
    IF i > Len(fcs) THEN <<>>
    ELSE (IF isFaceOutOfRange(fcs[i], verts) THEN <<>>
          ELSE << <<verts[fcs[i][1] + 1], verts[fcs[i][2] + 1], verts[fcs[i][3] + 1]>> >>)
         \o trianglesOf(i + 1, verts, fcs)

\* render(model, camera)
renderModel ==
    /\ rendCamera' = [pos |-> getPosition, target |-> target, fov |-> fov]
    /\ triangles' = trianglesOf(1, vertices, faces)
    /\ render

----------------------------------------------------------------------------
(* Calls of the Camera operations on bounded arguments *)

\* 1000 radians in degrees, the delta of the pitch-clamp scenario
BigAngle == 57296

\* the largest distance a zoom may produce in the model
MaxDistance == 100

OrbitArgs == {<<BigAngle, 0>>, <<-BigAngle, 0>>, <<0, 0>>, <<90, -PI>>, <<-90, 90>>,
              <<0, 765>>, <<0, -765>>}

PitchArgs == {-BigAngle, -90, 0, 30, 89, BigAngle}

YawArgs == {-765, -PI - 45, -PI, 0, 45, PI, PI + 45}

DistanceArgs == {-40, 0, 1, 40}

ZoomArgs == {-2, 1, 2, 4}

TargetArgs == {ZERO, Vec(1, 0, 2)}

CallSetTarget == UNCHANGED nonCamVars /\ \E t \in TargetArgs : setTarget(t)

CallSetDistance == UNCHANGED nonCamVars /\ \E d \in DistanceArgs : setDistance(d)

CallSetPitch == UNCHANGED nonCamVars /\ \E p \in PitchArgs : setPitch(p)

CallSetYaw == UNCHANGED nonCamVars /\ \E y \in YawArgs : setYaw(y)

CallOrbit == UNCHANGED nonCamVars /\ \E o \in OrbitArgs : orbit(o[1], o[2])

CallZoom ==
    /\ UNCHANGED nonCamVars
    /\ \E f \in ZoomArgs : (distance * f <= 2 * MaxDistance /\ zoom(f))

CallSetFrontView == UNCHANGED nonCamVars /\ setFrontView

CallSetRightView == UNCHANGED nonCamVars /\ setRightView

CallSetTopView == UNCHANGED nonCamVars /\ setTopView

CallSetIsometricView == UNCHANGED nonCamVars /\ setIsometricView

CallFocusOnPoint ==
    /\ UNCHANGED nonCamVars
    /\ \E t \in TargetArgs, m \in DistanceArgs : focusOnPoint(t, m)

NextCamera ==
    \/ CallSetTarget
    \/ CallSetDistance
    \/ CallSetPitch
    \/ CallSetYaw
    \/ CallOrbit
    \/ CallZoom
    \/ CallSetFrontView
    \/ CallSetRightView
    \/ CallSetTopView
    \/ CallSetIsometricView
    \/ CallFocusOnPoint

\* the camera as constructed, beside an empty model
InitCameraOnly ==
    InitCamera /\ IdleTri /\ IdleModel /\ IdleVis /\ IdleCast /\ IdleRay /\ IdleRenderer
    /\ IdleMore

SpecCamera == InitCameraOnly /\ [][NextCamera]_vars

\* what updatePosition and updateViewMatrix compute the position and the view
\* matrix from (the up vector is constant)
viewInputs == <<pitch, yaw, distance, target>>

FovArgs == {45, 60}

AspectArgs == {<<16, 9>>, <<4, 3>>}

ClippingArgs == {<<2, 2000>>, <<1, 1000>>}

CallSetFOV == UNCHANGED nonCamVars /\ \E f \in FovArgs : setFOV(f)

CallSetAspectRatio == UNCHANGED nonCamVars /\ \E r \in AspectArgs : setAspectRatio(r)

CallSetClippingPlanes ==
    UNCHANGED nonCamVars /\ \E c \in ClippingArgs : setClippingPlanes(c[1], c[2])

\* the preset views and focusOnPoint from states that differ in every field
NextCameraFrame ==
    \/ CallSetFrontView
    \/ CallSetRightView
    \/ CallSetTopView
    \/ CallSetIsometricView
    \/ CallFocusOnPoint
    \/ CallSetPitch
    \/ CallSetYaw
    \/ CallSetFOV
    \/ CallSetAspectRatio
    \/ CallSetClippingPlanes

SpecCameraFrame == InitCameraOnly /\ [][NextCameraFrame]_vars

----------------------------------------------------------------------------
(* Calls of the selection operations on bounded scenes and pick rays *)

MaxOffset == 5

\* a single vertex at the origin
SceneSingle == [vertices |-> <<Vec(0, 0, 0)>>, faces |-> <<>>]

\* a triangle in the plane y = 0 with a vertex two grid units behind it and
\* a vertex in front of it
SceneOccluded ==
    [vertices |-> <<Vec(-2, 0, -2), Vec(2, 0, -2), Vec(0, 0, 2),
                    Vec(0, -2, -1), Vec(0, 2, 0)>>,
     faces |-> <<<<0, 1, 2>>>>]

\* vertices at equal and at different depths, no faces
SceneTies ==
    [vertices |-> <<Vec(1, 0, 0), Vec(-1, 0, 0), Vec(0, 3, 0)>>,
     faces |-> <<>>]

Scenes == {SceneSingle, SceneOccluded, SceneTies}

\* base thresholds in hundredths: 0.05 and the 0.2 of InputHandler
BaseThresholds == {5, 20}

\* displacements of the ray origin from the camera position; the part along
\* the view direction only shifts the ray parameter
PickOffsets ==
    {Vec(a, a, 0) : a \in -1..MaxOffset} \cup {Vec(0, 0, b) : b \in {-1, 1}}

\* rays along the view direction, tilted rays, a ray without direction and
\* rays that start inside the scene
PickRays ==
    {Ray(Add(getPosition, off), getForwardVector) : off \in PickOffsets}
      \cup {Ray(getPosition, Add(Scale(getForwardVector, 10), Vec(k, k, 0))) : k \in {-1, 1}}
      \cup {Ray(getPosition, ZERO)}
      \cup {Ray(ZERO, getForwardVector), Ray(ZERO, Neg(getForwardVector))}

\* the camera after setFrontView or setRightView and setDistance; the scene is
\* picked while the camera stays where it is
\* as <<yaw in degrees, distance>>: the front view from 5.0 and the right view
\* from 2.0
SelectCameras == {<<0, 100>>, <<90, 40>>}

InitSelect ==
    /\ \E cam \in SelectCameras :
           /\ pitch = 0
           /\ yaw = cam[1] * DEG_TO_RAD
           /\ distance = Max(MinDistance, cam[2])
           /\ target = ZERO
           /\ camOp = CamCall("setDistance", cam[2], 0)
           /\ fov = 45 * DEG_TO_RAD
           /\ aspectRatio = <<16, 9>>
           /\ nearPlane = 2
           /\ farPlane = 2000
           /\ viewDirty = TRUE
           /\ projectionDirty = TRUE
           /\ viewMatrix = identity
           /\ projectionMatrix = identity
    /\ IdleTri
    /\ IdleVis
    /\ IdleCast
    /\ IdleRay
    /\ IdleRenderer
    /\ IdleMore
    /\ \E scene \in Scenes : vertices = scene.vertices /\ faces = scene.faces
    /\ IdleEdit
    /\ selectedVertexIndex = -1
    /\ disableVisibilityCheck = FALSE
    /\ selCall = NoSelCall

CallSelectVertex ==
    /\ UNCHANGED nonSelVars
    /\ \E ray \in PickRays, baseThreshold \in BaseThresholds :
           selectVertex(ray, baseThreshold)

CallSetSelectedVertex ==
    /\ UNCHANGED nonSelVars
    /\ \E index \in -1..Len(vertices) : setSelectedVertex(index)

CallClearSelection == UNCHANGED nonSelVars /\ clearSelection

CallSetDisableVisibilityCheck ==
    /\ UNCHANGED nonSelVars
    /\ \E disable \in BOOLEAN : setDisableVisibilityCheck(disable)

NextSelect ==
    \/ CallSelectVertex
    \/ CallSetSelectedVertex
    \/ CallClearSelection
    \/ CallSetDisableVisibilityCheck

SpecSelect == InitSelect /\ [][NextSelect]_vars

----------------------------------------------------------------------------
(* C3, C4, C5, C6 *)

\* The distance from a ray to a point, stated without the closest point: it is
\* |p - o| when the point is not ahead of the origin (or the ray has no
\* direction) and |(p - o) x D| / |D| otherwise.  As [num, den], the square.
PickDistSq(ray, p) ==
    IF LenSq(ray.dir) = 0 \/ Dot(Sub(p, ray.origin), ray.dir) <= 0
    THEN [num |-> LenSq(Sub(p, ray.origin)), den |-> 1]
    ELSE [num |-> LenSq(Cross(Sub(p, ray.origin), ray.dir)), den |-> LenSq(ray.dir)]

\* the distance from the ray to p is at most k * baseThreshold * cameraDistance
\* * 0.1: in grid units k * base * distance / 1000, base being in hundredths
PickBound(base, k) == Frac(k * base * distance, 1000)

PickWithin(ray, p, base, k) ==
    /\ PickBound(base, k).num >= 0
    /\ PickDistSq(ray, p).num
         <= (PickBound(base, k).num * PickBound(base, k).num * PickDistSq(ray, p).den)
               \div (PickBound(base, k).den * PickBound(base, k).den)

PickParam(ray, i) == Max(Dot(Sub(vertices[i + 1], ray.origin), ray.dir), 0)

\* the vertices within the scaled threshold of the pick ray of call c
PickNearOf(c) == {i \in 0..(Len(vertices) - 1) :
                     PickWithin(c.ray, vertices[i + 1], c.base, 1)}

\* those of them that the camera sees
PickVisibleOf(c) == {i \in PickNearOf(c) :
                        isVertexVisible(getPosition, vertices[i + 1], vertices, faces)}

\* the member of S with the smallest ray parameter, the lowest index on a tie
PickFirstOf(c, S) ==
    CHOOSE i \in S : \A j \in S :
        \/ PickParam(c.ray, i) < PickParam(c.ray, j)
        \/ PickParam(c.ray, i) = PickParam(c.ray, j) /\ i <= j

PickNear == PickNearOf(selCall)

PickVisible == PickVisibleOf(selCall)

PickFirst(S) == PickFirstOf(selCall, S)

\* the pick ray along the view direction that passes the origin at k grid units
PassingAt(k) == Ray(Add(getPosition, Vec(k, k, 0)), getForwardVector)

\* C3: selectVertex selects a vertex only if the pick ray passes it within
\* baseThreshold * cameraDistance * 0.1, and of the visible vertices within
\* that distance it selects the one with the smallest ray parameter, the
\* lowest index among equal parameters; with one vertex at the origin, base
\* threshold 0.2 and camera distance 5 a ray passing at 0.05 selects the
\* vertex and a ray passing at 0.15 does not.
C3_SelectsNearestWithinThreshold ==
    selCall.done =>
        /\ PickVisible # {} => selCall.post = PickFirst(PickVisible)
        /\ PickVisible = {} => selCall.post \in {selCall.prev, -1}
        /\ (vertices = SceneSingle.vertices /\ distance = 5 * OcclusionMarginInv
              /\ selCall.base = 20) =>
            /\ selCall.ray = PassingAt(1) => selCall.post = 0
            /\ selCall.ray = PassingAt(3) => selCall.post = selCall.prev /\ ~selCall.ret

\* two visible vertices within the threshold at the same ray parameter, and the
\* call has selected the lower one
C3_Witness ==
    /\ selCall.done
    /\ \E i, j \in PickVisible :
          /\ i < j
          /\ PickParam(selCall.ray, i) = PickParam(selCall.ray, j)
          /\ selCall.post = i
          /\ selCall.prev # i

\* C4: when selectVertex finds no hit, the selection is cleared if a vertex is
\* selected and the pick ray passes it at more than
\* 2 * baseThreshold * cameraDistance * 0.1, and is left as it was otherwise.
C4_NoHitDeselect ==
    (selCall.done /\ PickVisible = {}) =>
        IF selCall.prev >= 0
           /\ ~PickWithin(selCall.ray, vertices[selCall.prev + 1], selCall.base, 2)
        THEN selCall.post = -1
        ELSE selCall.post = selCall.prev

\* a call without a hit that cleared the selection of a vertex which the ray
\* passed at more than twice, but not more than three times, the threshold
C4_Witness ==
    /\ selCall.done /\ PickVisible = {}
    /\ selCall.prev >= 0 /\ selCall.post = -1
    /\ PickWithin(selCall.ray, vertices[selCall.prev + 1], selCall.base, 3)

\* C5: selectVertex returns true if and only if the selected index after the
\* call differs from the selected index before it.
C5_ReturnsWhetherChanged ==
    selCall.done => (selCall.ret <=> selCall.post # selCall.prev)

\* C6: selectVertex skips the vertices that fail the occlusion test while the
\* visibility check is enabled and skips no vertex once
\* setDisableVisibilityCheck(true) has been called: a selectVertex step then
\* selects the nearest vertex within the threshold, hidden or not.
C6_DisabledCheckSkipsNone ==
    [][(selCall'.done /\ selCall' # selCall) =>
          IF disableVisibilityCheck
          THEN PickNearOf(selCall') # {} =>
                   selectedVertexIndex' = PickFirstOf(selCall', PickNearOf(selCall'))
          ELSE PickVisibleOf(selCall') # {} =>
                   selectedVertexIndex' = PickFirstOf(selCall', PickVisibleOf(selCall'))]_vars

----------------------------------------------------------------------------
(* Calls of isVertexVisible on bounded scenes *)

MaxBehind == 3

\* a closed tetrahedron: vertex 3 lies behind face 0 and is a corner of the
\* other three faces
SceneTetra ==
    [vertices |-> <<Vec(-2, 0, -2), Vec(2, 0, -2), Vec(0, 0, 2), Vec(0, -2, 0)>>,
     faces |-> <<<<0, 1, 2>>, <<0, 1, 3>>, <<1, 2, 3>>, <<2, 0, 3>>>>]

VisScenes == {SceneOccluded, SceneTies, SceneTetra}

\* in front of the plane y = 0, far in front, oblique, behind, in the plane
\* beside the triangle and in the plane inside the triangle
VisCameras == {Vec(0, 4, 0), Vec(0, 100, 0), Vec(1, 3, 1), Vec(0, -5, 0),
               Vec(3, 0, 0), Vec(0, 0, 0)}

\* the vertices of the model, points at depth 0..MaxBehind behind the plane
\* y = 0, and a camera position
VisTargets(verts) ==
    {verts[i] : i \in 1..Len(verts)}
      \cup {Vec(x, -k, 0) : x \in {0, 3}, k \in 0..MaxBehind}
      \cup {Vec(0, 4, 0)}

InitVis ==
    /\ InitCamera
    /\ IdleTri
    /\ IdleCast
    /\ IdleRay
    /\ IdleRenderer
    /\ IdleMore
    /\ \E scene \in VisScenes :
          /\ vertices = scene.vertices
          /\ faces = scene.faces
          /\ visIn \in [cameraPos : VisCameras, vertex : VisTargets(scene.vertices)]
    /\ selectedVertexIndex = -1
    /\ disableVisibilityCheck = FALSE
    /\ selCall = NoSelCall
    /\ visOut = [done |-> FALSE, visible |-> TRUE]
    /\ IdleEdit

CallIsVertexVisible ==
    /\ ~visOut.done
    /\ visOut' = [done |-> TRUE,
                  visible |-> isVertexVisible(visIn.cameraPos, visIn.vertex,
                                              vertices, faces)]
    /\ UNCHANGED <<visIn, triVars, camVars, selVars, castVars, extVars>>

NextVis == CallIsVertexVisible

SpecVis == InitVis /\ [][NextVis]_vars

----------------------------------------------------------------------------
(* Calls of castRay for the primary ray of a pixel *)

MaxHitDistance == 3

MaxReflectionDepth == 2

Miss == [hit |-> FALSE, distance |-> 0]

HitAt(d) == [hit |-> TRUE, distance |-> d]

LineAt(d, c) == [hit |-> TRUE, distance |-> d, color |-> c]

LineMiss(c) == [hit |-> FALSE, distance |-> 0, color |-> c]

TriangleAt(d, front) == [hit |-> TRUE, distance |-> d, isFrontFace |-> front]

\* one vertex, missed or at any distance from rayEpsilon on
VertexHits == {<<Miss>>} \cup {<<HitAt(d)>> : d \in 1..MaxHitDistance}

EdgeHits == {<<Miss>>, <<HitAt(2)>>}

\* two axis lines
LineHits == {<<LineMiss(1), LineAt(2, 2)>>,
             <<LineAt(3, 1), LineAt(3, 2)>>,
             <<LineAt(1, 1), LineMiss(2)>>}

TriangleHits == {<<>>,
                 <<TriangleAt(2, TRUE)>>,
                 <<TriangleAt(3, TRUE), TriangleAt(2, FALSE)>>,
                 <<TriangleAt(2, TRUE), TriangleAt(2, FALSE)>>}

\* what a reflected ray meets: nothing, or a triangle that reflects it again
ReflectedHits == {NoHits, [NoHits EXCEPT !.triangles = <<TriangleAt(2, TRUE)>>]}

RenderConfigs ==
    [showVertices : BOOLEAN, showEdges : BOOLEAN, showFaces : BOOLEAN,
     showCoordinateAxes : BOOLEAN]

ReflectionConfigs ==
    [enableReflection : BOOLEAN, maxReflectionDepth : 0..MaxReflectionDepth]

InitRender ==
    /\ InitCamera
    /\ IdleTri
    /\ IdleModel
    /\ IdleVis
    /\ IdleRay
    /\ IdleRenderer
    /\ IdleMore
    /\ castIn \in [config : RenderConfigs,
                   reflectionConfig : ReflectionConfigs,
                   primary : [vertices : VertexHits, edges : EdgeHits,
                              lines : LineHits, triangles : TriangleHits],
                   reflected : ReflectedHits]
    /\ castOut = [done |-> FALSE, color |-> calculateSkyboxColor(0)]
    /\ castLog = <<>>

\* Vector3 color = castRay(ray) in render()
CallCastRay ==
    /\ ~castOut.done
    /\ castOut' = [done |-> TRUE, color |-> castRay(castIn, 0, 0)]
    /\ castLog' = castRayCalls(castIn, 0, 0)
    /\ UNCHANGED <<castIn, triVars, camVars, selVars, visVars, extVars>>

NextRender == CallCastRay

SpecRender == InitRender /\ [][NextRender]_vars

----------------------------------------------------------------------------
(* Calls of findClosestIntersection on models with edges and faces *)

\* the longest ray of the scenes, in grid units
MaxRayLength == 10

\* a vertex on the ray x = z = 0 with a second one behind it, the corners of a
\* triangle in the plane y = 0 around it, and a copy of the first vertex
SceneVertices ==
    <<Vec(0, 0, 0), Vec(0, -2, 0), Vec(-2, 0, -2), Vec(2, 0, -2), Vec(0, 0, 2),
      Vec(0, 0, 0)>>

VertexLists == {SceneVertices, SubSeq(SceneVertices, 1, 5), <<>>}

\* edges along the ray, across it, of zero length, and with indices that are
\* negative or beyond the vertices
EdgeLists ==
    {<<>>,
     <<<<0, 1>>, <<1, 0>>>>,
     <<<<0, 7>>, <<5, 1>>, <<0, 1>>>>,
     <<<<-1, 1>>, <<2, 3>>, <<4, 4>>>>}

FaceLists ==
    {<<>>,
     <<<<2, 3, 4>>>>,
     <<<<2, 3, 9>>, <<2, 3, 4>>, <<4, 3, 2>>>>,
     <<<<-1, 3, 4>>, <<5, 3, 4>>>>}

SceneRays ==
    {Ray(Vec(x, MaxRayLength, 0), d) :
         x \in {0, 1}, d \in {Vec(0, -1, 0), Vec(0, -2, 0), Vec(0, 1, 0), ZERO}}
      \cup {Ray(Vec(0, 0, 0), Vec(0, -1, 0)), Ray(Vec(0, 1, 2), Vec(0, -1, 0)),
            Ray(Vec(0, MaxRayLength, 0), Vec(1, -MaxRayLength, 0))}

\* thresholds in grid units
SceneThresholds == {Frac(0, 1), Frac(1, 1)}

\* values an unset float may hold
UnsetParams == {Frac(0, 1), Frac(3, 2)}

\* the renderer after initialize()
Initialized ==
    /\ width = DefaultWidth
    /\ height = DefaultHeight
    /\ pixels = [size |-> DefaultWidth * DefaultHeight, content |-> "background"]
    /\ triangles = <<>>
    /\ rendCamera = [pos |-> Vec(0, 0, 5 * OcclusionMarginInv), target |-> ZERO,
                     fov |-> 45 * DEG_TO_RAD]
    /\ rendOp = "initialize"
    /\ fault = FALSE

InitScene ==
    /\ InitCamera
    /\ IdleTri
    /\ IdleCast
    /\ Initialized
    /\ IdleMore
    /\ vertices \in VertexLists
    /\ edges \in EdgeLists
    /\ faces \in FaceLists
    /\ isModified = TRUE
    /\ normals = [i \in 1..Len(vertices) |-> DefaultNormal]
    /\ editOp = [op |-> "addFace", index |-> 0]
    /\ selectedVertexIndex = -1
    /\ disableVisibilityCheck = FALSE
    /\ selCall = NoSelCall
    /\ rayIn \in [op : {"findClosestIntersection"}, ray : SceneRays,
                  vertexThreshold : SceneThresholds,
                  edgeThreshold : SceneThresholds]
    /\ rayOut = [done |-> FALSE]
    /\ absIsInt \in BOOLEAN
    /\ visIn = [cameraPos |-> rayIn.ray.origin, vertex |-> Vec(0, -2, 0)]
    /\ visOut = [done |-> FALSE, visible |-> TRUE]

CallFindClosestIntersection ==
    /\ ~rayOut.done
    /\ \E edgeParameter0 \in UnsetParams :
          rayOut' = [done |-> TRUE,
                     unset |-> edgeParameter0,
                     result |-> findClosestIntersection(
                                    rayIn.ray, vertices, edges, faces,
                                    rayIn.vertexThreshold, rayIn.edgeThreshold,
                                    edgeParameter0)]
    /\ UNCHANGED <<rayIn, absIsInt, triVars, camVars, selVars, visVars, castVars,
                   editVars, rendVars, moreVars>>

\* renderer.render(model, camera)
CallRenderModel ==
    /\ rendOp # "render(model, camera)"
    /\ renderModel
    /\ rendOp' = "render(model, camera)"
    /\ UNCHANGED <<triVars, camVars, selVars, visVars, castVars, rayVars, editVars, moreVars>>

NextScene ==
    \/ CallFindClosestIntersection
    \/ CallIsVertexVisible
    \/ CallRenderModel

SpecScene == InitScene /\ [][NextScene]_vars

----------------------------------------------------------------------------
(* C15 *)

\* every hit of the call: its kind (1 vertex, 2 edge, 3 face), its index in the
\* model's list and its ray parameter
SceneHits ==
    {[kind |-> 1, index |-> i,
      at |-> vertexDistance(rayIn.ray,
                 intersectVertex(rayIn.ray, vertices[i + 1], rayIn.vertexThreshold, i))] :
        i \in {j \in 0..(Len(vertices) - 1) :
                  intersectVertex(rayIn.ray, vertices[j + 1],
                                  rayIn.vertexThreshold, j).hit}}
    \cup
    {[kind |-> 2, index |-> i,
      at |-> intersectEdge(rayIn.ray, vertices[edges[i + 1][1] + 1],
                           vertices[edges[i + 1][2] + 1], rayIn.edgeThreshold, i,
                           Frac(0, 1)).distance] :
        i \in {j \in 0..(Len(edges) - 1) :
                  /\ \A k \in 1..2 : edges[j + 1][k] \in 0..(Len(vertices) - 1)
                  /\ intersectEdge(rayIn.ray, vertices[edges[j + 1][1] + 1],
                                   vertices[edges[j + 1][2] + 1],
                                   rayIn.edgeThreshold, j, Frac(0, 1)).hit}}
    \cup
    {[kind |-> 3, index |-> i,
      at |-> LET h == intersectTriangle(rayIn.ray, vertices[faces[i + 1][1] + 1],
                                        vertices[faces[i + 1][2] + 1],
                                        vertices[faces[i + 1][3] + 1])
             IN  Frac(h.distNum, h.distDen)] :
        i \in {j \in 0..(Len(faces) - 1) :
                  /\ \A k \in 1..3 : faces[j + 1][k] \in 0..(Len(vertices) - 1)
                  /\ intersectTriangle(rayIn.ray, vertices[faces[j + 1][1] + 1],
                                       vertices[faces[j + 1][2] + 1],
                                       vertices[faces[j + 1][3] + 1]).hit}}

KindOf(type) == CASE type = "VERTEX" -> 1 [] type = "EDGE" -> 2 [] type = "FACE" -> 3
                  [] OTHER -> 0

\* h comes before g: nearer, or as near and of a preferred kind, or as near, of
\* the same kind and of a lower index
Precedes(h, g) ==
    \/ FracLess(h.at, g.at)
    \/ h.at = g.at /\ h.kind < g.kind
    \/ h.at = g.at /\ h.kind = g.kind /\ h.index <= g.index

\* C15: findClosestIntersection returns the hit with the minimum ray parameter
\* over all vertex, edge and face hits, VERTEX before EDGE before FACE among
\* equal parameters and the lowest index within a kind; with no hit the type is
\* NONE and elementIndex is -1.
C15_ClosestIntersection ==
    rayOut.done =>
       IF SceneHits = {}
       THEN rayOut.result.type = "NONE" /\ rayOut.result.elementIndex = -1
       ELSE \E h \in SceneHits :
               /\ \A g \in SceneHits : Precedes(h, g)
               /\ KindOf(rayOut.result.type) = h.kind
               /\ rayOut.result.elementIndex = h.index
               /\ rayOut.result.distance = h.at

\* a vertex, an edge and a face hit at the same ray parameter, and the vertex
\* is hit again behind
C15_Witness ==
    /\ rayOut.done
    /\ rayOut.result.type = "VERTEX"
    /\ \E e, f, v \in SceneHits :
          /\ e.kind = 2 /\ f.kind = 3 /\ v.kind = 1
          /\ e.at = rayOut.result.distance /\ f.at = rayOut.result.distance
          /\ v.index > rayOut.result.elementIndex
          /\ v.at = rayOut.result.distance
    /\ rayOut.result.distance.num > 0

\* an edge and a face hit at the same ray parameter and no vertex is hit
C15_WitnessEdge ==
    /\ rayOut.done
    /\ rayOut.result.type = "EDGE"
    /\ \E f \in SceneHits : f.kind = 3 /\ f.at = rayOut.result.distance
    /\ rayOut.result.distance.num > 0

----------------------------------------------------------------------------
(* Calls that edit a Model *)

MaxVertices == 3

\* the position given to the vertex added as number n
EditPosition(n) == Vec(2 * (n % 2), 2 * (n \div 2), 0)

\* the indices below and beyond the vertices, and those of the first and of
\* the last vertex
EditIndices == {-1, 0, Len(vertices) - 1, Len(vertices), MaxVertices + 1}

\* the same without the first vertex
RemoveIndices == {-1, Len(vertices) - 1, Len(vertices), MaxVertices + 1}

EditFaces == {<<0, 1, 2>>, <<0, 2, 1>>, <<0, 1, MaxVertices>>}

EditEdges == {<<0, 1>>, <<1, 2>>, <<0, MaxVertices>>}

InitEdit ==
    /\ InitCamera
    /\ IdleTri
    /\ IdleModel
    /\ IdleVis
    /\ IdleCast
    /\ IdleRay
    /\ IdleRenderer
    /\ IdleMore

EditFrame ==
    UNCHANGED <<triVars, camVars, visVars, castVars, rayVars, rendVars, moreVars,
                disableVisibilityCheck, selCall>>

CallAddVertex ==
    /\ Len(vertices) < MaxVertices
    /\ addVertex(EditPosition(Len(vertices)))
    /\ EditFrame

CallAddFace ==
    /\ Len(faces) < 2
    /\ \E face \in EditFaces : addFace(face)
    /\ EditFrame

CallAddEdge ==
    /\ Len(edges) < 1
    /\ \E edge \in EditEdges : addEdge(edge)
    /\ EditFrame

CallRemoveVertex == EditFrame /\ \E index \in RemoveIndices : removeVertex(index)

CallSetVertexPosition ==
    /\ EditFrame
    /\ \E index \in {-1, 0, Len(vertices)} : setVertexPosition(index, Vec(0, 0, 2))

CallSelectForEdit == EditFrame /\ \E index \in EditIndices : selectForEdit(index)

NextEdit ==
    \/ CallAddVertex
    \/ CallAddFace
    \/ CallAddEdge
    \/ CallRemoveVertex
    \/ CallSetVertexPosition
    \/ CallSelectForEdit

SpecEdit == InitEdit /\ [][NextEdit]_vars

----------------------------------------------------------------------------
(* C17 *)

\* C17: setSelectedVertex(i), setVertexPosition(i, p) and removeVertex(i) with
\* an index i that is negative or not below the number of vertices change
\* nothing: vertices, faces, edges, selected index and modified flag stay.
C17_InvalidIndexNoOp ==
    [][(/\ editOp'.op \in {"setSelectedVertex", "setVertexPosition", "removeVertex"}
        /\ (editOp'.index < 0 \/ editOp'.index >= Len(vertices)))
          => UNCHANGED <<vertices, normals, faces, edges, selectedVertexIndex,
                         isModified>>]_vars

\* removeVertex was called with the index one past the last vertex on a model
\* with faces, an edge, a selection and a vertex that was moved
C17_Witness ==
    /\ editOp = EditCall("removeVertex", Len(vertices))
    /\ Len(vertices) = MaxVertices
    /\ faces # <<>> /\ edges # <<>>
    /\ selectedVertexIndex = MaxVertices - 1
    /\ \E k \in 1..Len(normals) : ~normals[k].up

----------------------------------------------------------------------------
(* Lifecycle calls of the SoftwareRenderer *)

MaxResolution == 3

\* widths and heights: none, small ones, the constructed one and negative ones
ResolutionArgs ==
    (0..MaxResolution) \cup {DefaultWidth, DefaultHeight, -1, -MaxResolution}

ClearColors == {"background", "black"}

InitRenderer ==
    /\ InitCamera
    /\ IdleTri
    /\ IdleModel
    /\ IdleVis
    /\ IdleCast
    /\ IdleRay
    /\ IdleRenderer
    /\ IdleMore

RendererFrame ==
    UNCHANGED <<triVars, camVars, selVars, visVars, castVars, rayVars, editVars, moreVars>>

CallInitialize == RendererFrame /\ initialize /\ rendOp' = "initialize"

CallSetResolution ==
    /\ RendererFrame
    /\ \E newWidth, newHeight \in ResolutionArgs : setResolution(newWidth, newHeight)
    /\ rendOp' = "setResolution"

CallRender ==
    /\ RendererFrame
    /\ render
    /\ rendOp' = "render"
    /\ UNCHANGED <<triangles, rendCamera>>

CallClear ==
    /\ RendererFrame
    /\ \E clearColor \in ClearColors : clear(clearColor)
    /\ rendOp' = "clear"

CallShutdown == RendererFrame /\ shutdown /\ rendOp' = "shutdown"

NextRenderer ==
    \/ CallInitialize
    \/ CallSetResolution
    \/ CallRender
    \/ CallClear
    \/ CallShutdown

SpecRenderer == InitRenderer /\ [][NextRenderer]_vars

----------------------------------------------------------------------------
(* C18 *)

\* C18: in every state reachable through construction, initialize,
\* setResolution, render, clear and shutdown the pixel array has exactly
\* width * height entries, so no write of render() falls outside it.
C18_PixelArraySize == pixels.size = width * height /\ ~fault

----------------------------------------------------------------------------
(* Calls of rayEdgeDistance with the endpoints in both orders *)

MaxEdgeCoord == 2

EdgePoints ==
    {Vec(x, y, z) : x \in -1..MaxEdgeCoord, y \in 0..MaxEdgeCoord, z \in {0, 1}}

\* endpoints one grid unit (0.05) apart and endpoints one world unit apart
EdgeScales == {1, OcclusionMarginInv}

EdgeRays ==
    {Ray(o, d) : o \in {Vec(0, 0, 0), Vec(1, -2, 0)},
                 d \in {Vec(1, 0, 0), Vec(0, 1, 0), Vec(0, -1, 0), Vec(1, 1, 0),
                        Vec(1, 2, 2), ZERO}}

InitEdgeDistance ==
    /\ InitCamera
    /\ IdleTri
    /\ IdleModel
    /\ IdleVis
    /\ IdleCast
    /\ IdleRenderer
    /\ IdleMore
    /\ \E k \in EdgeScales, a, b \in EdgePoints, ray \in EdgeRays :
          rayIn = [op |-> "rayEdgeDistance", ray |-> ray, A |-> Scale(a, k),
                   B |-> Scale(b, k)]
    /\ rayOut = [done |-> FALSE]
    /\ absIsInt \in BOOLEAN

\* rayEdgeDistance(ray, A, B, ...) and rayEdgeDistance(ray, B, A, ...), each with
\* its own unset edgeParameter
CallRayEdgeDistance ==
    /\ ~rayOut.done
    /\ \E p, q \in UnsetParams :
          rayOut' = [done |-> TRUE,
                     ab |-> rayEdgeDistance(rayIn.ray, rayIn.A, rayIn.B, p),
                     ba |-> rayEdgeDistance(rayIn.ray, rayIn.B, rayIn.A, q)]
    /\ UNCHANGED <<rayIn, absIsInt, triVars, camVars, selVars, visVars, castVars,
                   editVars, rendVars, moreVars>>

NextEdgeDistance == CallRayEdgeDistance

SpecEdgeDistance == InitEdgeDistance /\ [][NextEdgeDistance]_vars

----------------------------------------------------------------------------
(* C19 *)

\* 1 - t
OneMinus(t) == Frac(t.den - t.num, t.den)

SameDistance(r, s) == r.sqNum = s.sqNum /\ r.sqDen = s.sqDen

\* C19: rayEdgeDistance(ray, A, B) and rayEdgeDistance(ray, B, A) return the
\* same distance and the same ray parameter, and edge parameters t and 1 - t.
C19_EndpointSwap ==
    rayOut.done =>
       /\ SameDistance(rayOut.ab, rayOut.ba)
       /\ rayOut.ab.rayParameter = rayOut.ba.rayParameter
       /\ rayOut.ba.edgeParameter = OneMinus(rayOut.ab.edgeParameter)

----------------------------------------------------------------------------
(* Calls of the intersection routines with a ray that has no direction *)

\* Ray(origin, direction) stores direction.normalized(), which is the zero
\* vector for a direction shorter than 1e-6f
ZeroRays == {Ray(o, ZERO) : o \in {Vec(0, 0, 0), Vec(1, -2, 0)}}

\* thresholds in grid units, a negative one among them
ZeroThresholds == SceneThresholds \cup {Frac(3, 1), Frac(-1, 1)}

InitZeroRay ==
    /\ InitCamera
    /\ IdleTri
    /\ IdleModel
    /\ IdleVis
    /\ IdleCast
    /\ IdleRenderer
    /\ IdleMore
    /\ rayIn \in [op : {"intersect"}, ray : ZeroRays, A : EdgePoints, B : EdgePoints,
                  C : {Vec(0, MaxEdgeCoord, 1), Vec(-1, 0, 1)},
                  threshold : ZeroThresholds, thickness : {1, 2}]
    /\ rayOut = [done |-> FALSE]
    /\ absIsInt \in BOOLEAN

\* intersectVertex on A, intersectEdge and intersectLine on A-B and
\* intersectTriangle on A, B, C
CallIntersectAll ==
    /\ ~rayOut.done
    /\ \E p, q \in UnsetParams :
          rayOut' =
            [done |-> TRUE,
             vertex |-> intersectVertex(rayIn.ray, rayIn.A, rayIn.threshold, 0),
             edge |-> intersectEdge(rayIn.ray, rayIn.A, rayIn.B, rayIn.threshold, 0, p),
             line |-> intersectLine(rayIn.ray,
                                    [start |-> rayIn.A, end |-> rayIn.B, color |-> 1,
                                     thickness |-> rayIn.thickness],
                                    rayIn.threshold, 0, q),
             triangle |-> intersectTriangle(rayIn.ray, rayIn.A, rayIn.B, rayIn.C)]
    /\ UNCHANGED <<rayIn, absIsInt, triVars, camVars, selVars, visVars, castVars,
                   editVars, rendVars, moreVars>>

NextZeroRay == CallIntersectAll

SpecZeroRay == InitZeroRay /\ [][NextZeroRay]_vars

----------------------------------------------------------------------------
(* C20 *)

\* C20: for a ray whose stored direction is the zero vector, intersectTriangle,
\* intersectVertex, intersectEdge and intersectLine report hit = false for
\* every primitive position and every threshold.
C20_ZeroDirectionNeverHits ==
    rayOut.done =>
       /\ ~rayOut.triangle.hit
       /\ ~rayOut.vertex.hit
       /\ ~rayOut.edge.hit
       /\ ~rayOut.line.hit

----------------------------------------------------------------------------
(* C16 *)

\* the 0-based positions of the edges and of the faces whose indices are all
\* inside [0, vertexCount)
ValidEdgeIndices ==
    SelectSeq([i \in 1..Len(edges) |-> i - 1],
              LAMBDA i : \A k \in 1..2 : edges[i + 1][k] \in 0..(Len(vertices) - 1))

ValidFaceIndices ==
    SelectSeq([i \in 1..Len(faces) |-> i - 1],
              LAMBDA i : \A k \in 1..3 : faces[i + 1][k] \in 0..(Len(vertices) - 1))

\* the model without the edges and faces that have an index out of range
ValidEdges == [k \in 1..Len(ValidEdgeIndices) |-> edges[ValidEdgeIndices[k] + 1]]

ValidFaces == [k \in 1..Len(ValidFaceIndices) |-> faces[ValidFaceIndices[k] + 1]]

\* the result of the call on the model without them
ResultOnValid ==
    findClosestIntersection(rayIn.ray, vertices, ValidEdges, ValidFaces,
                            rayIn.vertexThreshold, rayIn.edgeThreshold, rayOut.unset)

\* r is the result s with the element index counted in the whole list
SameElement(r, s) ==
    /\ r.type = s.type
    /\ r.distance = s.distance
    /\ r.point = s.point
    /\ r.elementIndex =
         CASE s.type = "EDGE" -> ValidEdgeIndices[s.elementIndex + 1]
           [] s.type = "FACE" -> ValidFaceIndices[s.elementIndex + 1]
           [] OTHER -> s.elementIndex

\* C16: findClosestIntersection, isVertexVisible and render(model, camera) skip
\* every edge or face that has an index which is negative or >= vertexCount,
\* and give what they give on the model without those edges and faces (the
\* element of the result is then the same edge or face).
C16_OutOfRangeSkipped ==
    /\ rayOut.done => SameElement(rayOut.result, ResultOnValid)
    /\ visOut.done =>
          visOut.visible = isVertexVisible(visIn.cameraPos, visIn.vertex, vertices,
                                           ValidFaces)
    /\ rendOp = "render(model, camera)" =>
          triangles = trianglesOf(1, vertices, ValidFaces)

\* all three calls were made on a model whose first edge and first face are out
\* of range; a later edge was hit, a later face hides the vertex and is rendered
C16_Witness ==
    /\ rayOut.done /\ visOut.done /\ rendOp = "render(model, camera)"
    /\ Len(ValidEdges) < Len(edges)
    /\ Len(ValidFaces) < Len(faces)
    /\ rayOut.result.type = "EDGE" /\ rayOut.result.elementIndex > 0
    /\ ~visOut.visible
    /\ triangles # <<>>

\* the same with a face as the result
C16_WitnessFace ==
    /\ rayOut.done
    /\ Len(ValidFaces) < Len(faces)
    /\ rayOut.result.type = "FACE" /\ rayOut.result.elementIndex > 0

----------------------------------------------------------------------------
(* C14 *)

RECURSIVE CallsBound(_, _)
\* the most invocations of depth >= d + 1 that one invocation of depth d makes
\* when every ray meets at most n triangles and the depth stops at m - d levels
CallsBound(n, levels) ==
    IF levels <= 0 THEN 0 ELSE n * (1 + CallsBound(n, levels - 1))

\* the most triangles any ray of the pixel meets
MostTriangles ==
    Max(Len(castIn.primary.triangles), Len(castIn.reflected.triangles))

\* C14: with reflection enabled and any maxReflectionDepth >= 0, castRay(ray, 0)
\* returns after finitely many invocations, no invocation has depth greater
\* than maxReflectionDepth, and an invocation with depth equal to
\* maxReflectionDepth tests no primitive and returns the sky color of its ray.
C14_ReflectionDepthBounded ==
    (castOut.done /\ castIn.reflectionConfig.enableReflection /\ castLog # <<>>) =>
       /\ Len(castLog) <=
             1 + CallsBound(MostTriangles, castIn.reflectionConfig.maxReflectionDepth)
       /\ castLog[1].depth = 0
       /\ \A k \in 1..Len(castLog) :
             /\ castLog[k].depth <= castIn.reflectionConfig.maxReflectionDepth
             /\ castLog[k].depth = castIn.reflectionConfig.maxReflectionDepth =>
                  /\ castLog[k].tests = 0
                  /\ castLog[k].color = calculateSkyboxColor(castLog[k].ray)

\* a primary ray whose reflection is reflected again, cut at depth 2 by the
\* depth check
C14_Witness ==
    /\ castOut.done
    /\ castIn.reflectionConfig = [enableReflection |-> TRUE, maxReflectionDepth |-> 2]
    /\ \E k \in 1..Len(castLog) :
          castLog[k].depth = 2 /\ castLog[k].color = calculateSkyboxColor(1)
    /\ castIn.reflected.triangles # <<>>
    /\ castOut.color.kind = "face"
    /\ castOut.color.reflected[1].kind = "face"

----------------------------------------------------------------------------
(* C1 *)

\* the categories in the order castRay tests them
Categories == <<"vertices", "edges", "lines", "triangles">>

isShown(cat) ==
    CASE cat = 1 -> castIn.config.showVertices
      [] cat = 2 -> castIn.config.showEdges
      [] cat = 3 -> castIn.config.showCoordinateAxes
      [] cat = 4 -> castIn.config.showFaces

hitList(cat) == castIn.primary[Categories[cat]]

\* the hits of the primary ray that count: enabled category, distance beyond
\* rayEpsilon; as <<category, index>>
Countable ==
    {c \in (1..4) \X (1..2) :
        /\ isShown(c[1])
        /\ c[2] <= Len(hitList(c[1]))
        /\ hitList(c[1])[c[2]].hit
        /\ hitList(c[1])[c[2]].distance > RayEpsilon}

distanceOf(c) == hitList(c[1])[c[2]].distance

\* no countable hit is nearer, and none as near in an earlier category
isNearest(c) ==
    \A e \in Countable :
        \/ distanceOf(c) < distanceOf(e)
        \/ distanceOf(c) = distanceOf(e) /\ c[1] <= e[1]

\* the returned color is the color of primitive c
isColorOf(color, c) ==
    CASE c[1] = 1 -> color = White
      [] c[1] = 2 -> color = LightGray
      [] c[1] = 3 -> color = lineColor(hitList(3)[c[2]])
      [] c[1] = 4 -> color.kind = "face"
                       /\ color.of = (IF hitList(4)[c[2]].isFrontFace THEN 1 ELSE 0)

\* C1: castRay returns the color of the primitive with the smallest hit
\* distance among the hits of enabled categories beyond rayEpsilon, the earlier
\* category in the order vertex, edge, axis line, face on equal distance;
\* disabled categories have no effect; without such a hit it returns the sky
\* color.
C1_NearestEnabledHitColor ==
    castOut.done =>
        IF Countable = {}
        THEN castOut.color = calculateSkyboxColor(0)
        ELSE \E c \in Countable : isNearest(c) /\ isColorOf(castOut.color, c)

----------------------------------------------------------------------------
(* C7 *)

Triple(a, b, c) == Dot(a, Cross(b, c))

\* The triangle a, b, c stands between the camera and the point p, more than
\* the occlusion margin (one grid unit) before p.  The line from the camera
\* through p meets the plane of the triangle at the camera + s * (p - camera),
\* s = VisN / VisD; it passes through the triangle, border included, when the
\* volumes spanned by the line and the three edges have one sign; and the
\* meeting point is before p by more than the margin when
\* (1 - s) * |p - camera| > 1.
Occludes(cam, p, a, b, c) ==
    LET d == Sub(p, cam)
        n == Cross(Sub(b, a), Sub(c, a))
        VisD == Dot(n, d)
        VisN == Dot(n, Sub(a, cam))
        t1 == Triple(d, Sub(a, cam), Sub(b, cam))
        t2 == Triple(d, Sub(b, cam), Sub(c, cam))
        t3 == Triple(d, Sub(c, cam), Sub(a, cam))
    IN  /\ VisD # 0
        /\ VisN * Sign(VisD) >= 0
        /\ (t1 >= 0 /\ t2 >= 0 /\ t3 >= 0) \/ (t1 <= 0 /\ t2 <= 0 /\ t3 <= 0)
        /\ (VisD - VisN) * Sign(VisD) > 0
        /\ (VisD - VisN) * (VisD - VisN) > (VisD * VisD) \div LenSq(d)

\* face number i has its three indices in range and no corner at p
MayOcclude(i, p) ==
    /\ \A k \in 1..3 : faces[i][k] >= 0 /\ faces[i][k] < Len(vertices)
    /\ \A k \in 1..3 : vertices[faces[i][k] + 1] # p

OccludedBy(i) ==
    /\ MayOcclude(i, visIn.vertex)
    /\ Occludes(visIn.cameraPos, visIn.vertex, vertices[faces[i][1] + 1],
                vertices[faces[i][2] + 1], vertices[faces[i][3] + 1])

\* C7: isVertexVisible returns false exactly when some face with indices in
\* range, none of whose corners is the vertex, is hit by the ray from the
\* camera toward the vertex at a distance smaller than the distance to the
\* vertex minus the occlusion margin; faces with the vertex as a corner and
\* faces at or beyond the vertex never occlude, and without faces every vertex
\* is visible.
C7_IsVertexVisible ==
    visOut.done =>
        /\ ~visOut.visible <=> \E i \in 1..Len(faces) : OccludedBy(i)
        /\ faces = <<>> => visOut.visible

\* a vertex of the model that is occluded by a face while being the corner of
\* another face
C7_Witness ==
    /\ visOut.done /\ ~visOut.visible
    /\ \E i \in 1..Len(faces) : \E k \in 1..3 :
          vertices[faces[i][k] + 1] = visIn.vertex

----------------------------------------------------------------------------
(* C8, C9, C10, C11, C12, C13 *)

\* C8: in every state reachable by Camera operations the pitch lies in
\* [-89, +89] degrees, and after orbit(+1000 rad, 0) it is exactly +89 degrees.
C8_PitchClamped ==
    /\ -(MaxPitchDeg * DEG_TO_RAD) <= pitch
    /\ pitch <= MaxPitchDeg * DEG_TO_RAD
    /\ (camOp.op = "orbit" /\ camOp.a = BigAngle) => pitch = MaxPitchDeg * DEG_TO_RAD

\* orbit(+1000 rad, 0) has run and left the pitch at the limit
C8_Witness ==
    camOp = CamCall("orbit", BigAngle, 0) /\ pitch = MaxPitchDeg * DEG_TO_RAD

\* C9 as stated: after every orbit or setYaw the yaw lies in (-pi, pi].
C9_YawHalfOpen ==
    camOp.op \in {"orbit", "setYaw"} => (-PI < yaw /\ yaw <= PI)

\* C9 amended: after every orbit or setYaw the yaw lies in the closed interval
\* [-pi, pi]; both bounds can be stored.
C9_YawClosed ==
    camOp.op \in {"orbit", "setYaw"} => (-PI <= yaw /\ yaw <= PI)

\* an orbit call by -pi that stored the lower bound -pi
C9_Witness == camOp.op = "orbit" /\ camOp.b = -PI /\ yaw = -PI

\* C10: after any sequence of Camera operations the distance is at least 0.1.
C10_DistanceFloor == distance >= MinDistance

\* C11: from every reachable camera state orbit(0, 0) leaves pitch, yaw,
\* distance and target unchanged, hence also the position and the view matrix
\* computed from them.
C11_OrbitZeroIdentity ==
    [][(camOp'.op = "orbit" /\ camOp'.a = 0 /\ camOp'.b = 0) =>
          UNCHANGED viewInputs]_vars

\* orbit(0, 0) has run with the pitch at its lower limit and the yaw at pi
C11_Witness ==
    /\ camOp.op = "orbit" /\ camOp.a = 0 /\ camOp.b = 0
    /\ pitch = -(MaxPitchDeg * DEG_TO_RAD)
    /\ yaw = PI

\* C12: from every reachable camera state zoom(1.0) leaves the distance
\* unchanged, hence also the position and the view matrix.
C12_ZoomOneIdentity ==
    [][(camOp'.op = "zoom" /\ camOp'.a = 2) => UNCHANGED viewInputs]_vars

\* C13: each preset view sets (pitch, yaw) to a fixed pair and leaves distance,
\* target and the projection parameters unchanged; focusOnPoint(point, margin)
\* sets target = point and distance = margin and leaves pitch, yaw and the
\* projection parameters unchanged.
C13_PresetFrames ==
    [][/\ camOp'.op = "setFrontView" =>
            pitch' = 0 /\ yaw' = 0 /\ UNCHANGED <<distance, target, projVars>>
       /\ camOp'.op = "setRightView" =>
            pitch' = 0 /\ yaw' = 90 * DEG_TO_RAD
              /\ UNCHANGED <<distance, target, projVars>>
       /\ camOp'.op = "setTopView" =>
            pitch' = -89 * DEG_TO_RAD /\ yaw' = 0
              /\ UNCHANGED <<distance, target, projVars>>
       /\ camOp'.op = "setIsometricView" =>
            pitch' = -30 * DEG_TO_RAD /\ yaw' = 45 * DEG_TO_RAD
              /\ UNCHANGED <<distance, target, projVars>>
       /\ camOp'.op = "focusOnPoint" =>
            target' = camOp'.b /\ distance' = camOp'.a
              /\ UNCHANGED <<pitch, yaw, projVars>>]_vars

\* focusOnPoint has run on a camera whose pitch, yaw and projection parameters
\* were all different from the constructed ones
C13_Witness ==
    /\ camOp.op = "focusOnPoint" /\ camOp.a = 40
    /\ target = Vec(1, 0, 2) /\ distance = 40
    /\ pitch = 30 /\ yaw = 45
    /\ fov = 60 * DEG_TO_RAD /\ aspectRatio = <<4, 3>> /\ nearPlane = 1

----------------------------------------------------------------------------
(* Calls of intersectTriangle on bounded inputs *)

MaxXY == 1
MaxZ == 1

\* corners v1, v2 of the triangles tried; v0 is the corner of the test triangle
TriPoints == {Vec(x, y, z) : x \in -MaxXY..MaxXY, y \in -MaxXY..MaxXY, z \in 0..MaxZ}

TriV0 == Vec(-1, -1, 0)

RayOrigins == {Vec(x, y, z) : x \in {0, 2}, y \in -1..1, z \in {-1, 1}}

RayDirs == {Vec(0, 0, -1), Vec(0, 0, 1), Vec(0, 0, 0), Vec(1, 0, 0), Vec(0, 1, 0),
            Vec(1, 0, -1), Vec(0, 1, -1), Vec(1, 1, -1), Vec(-1, 0, -1),
            Vec(-1, -1, 1), Vec(1, 1, 0)}

InitTri ==
    /\ InitCamera
    /\ IdleModel
    /\ IdleVis
    /\ IdleCast
    /\ IdleRay
    /\ IdleRenderer
    /\ IdleMore
    /\ triIn \in [ray : {Ray(o, d) : o \in RayOrigins, d \in RayDirs},
                  v0 : {TriV0}, v1 : TriPoints, v2 : TriPoints]
    /\ triOut = [done |-> FALSE, res |-> NoTriangleHit]

CallIntersectTriangle ==
    /\ ~triOut.done
    /\ triOut' = [done |-> TRUE,
                  res |-> intersectTriangle(triIn.ray, triIn.v0, triIn.v1, triIn.v2)]
    /\ UNCHANGED <<triIn, nonTriVars>>

NextTri == CallIntersectTriangle

SpecTri == InitTri /\ [][NextTri]_vars

----------------------------------------------------------------------------
(* C2 *)

\* geometry of the call, stated without the code's edge tests
GeomNormal == Cross(Sub(triIn.v1, triIn.v0), Sub(triIn.v2, triIn.v0))

GeomDenom == Dot(GeomNormal, triIn.ray.dir)

GeomNum == Dot(Sub(triIn.v0, triIn.ray.origin), GeomNormal)

GeomNotParallel == GeomDenom # 0

GeomTNonNegative == GeomNum * GeomDenom >= 0

\* (plane point - v0) * GeomDenom
GeomW == Add(Scale(Sub(triIn.ray.origin, triIn.v0), GeomDenom),
             Scale(triIn.ray.dir, GeomNum))

\* barycentric coordinates of the plane point, times |GeomDenom| * |N|^2
GeomU == Dot(Cross(GeomW, Sub(triIn.v2, triIn.v0)), GeomNormal) * Sign(GeomDenom)

GeomV == Dot(Cross(Sub(triIn.v1, triIn.v0), GeomW), GeomNormal) * Sign(GeomDenom)

GeomOne == Abs(GeomDenom) * LenSq(GeomNormal)

GeomInsideOrOnBorder == GeomU >= 0 /\ GeomV >= 0 /\ GeomU + GeomV <= GeomOne

TestTriangle == triIn.v0 = Vec(-1, -1, 0) /\ triIn.v1 = Vec(1, -1, 0) /\ triIn.v2 = Vec(0, 1, 0)

\* C2: intersectTriangle hits exactly when the ray is not parallel to the plane,
\* t >= 0 and the plane point has barycentric coordinates u, v >= 0, u + v <= 1
\* (inside or on an edge or corner), so never when t < 0; on a hit distance = t,
\* point = origin + t * direction lies in the plane, and isFrontFace iff
\* dot(cross(v1 - v0, v2 - v0), direction) < 0; the test triangle is hit from
\* (0,0,1) along (0,0,-1) at distance 1 at (0,0,0) as a front face and missed
\* from (2,0,1).
C2_IntersectTriangle ==
    triOut.done =>
        LET r == triOut.res IN
        /\ r.hit <=> (GeomNotParallel /\ GeomTNonNegative /\ GeomInsideOrOnBorder)
        /\ (GeomNotParallel /\ ~GeomTNonNegative) => ~r.hit
        /\ r.hit =>
            /\ r.distDen > 0
            /\ r.distNum * GeomDenom = GeomNum * r.distDen
            /\ Scale(r.point.num, r.distDen)
                 = Scale(Add(Scale(triIn.ray.origin, r.distDen),
                             Scale(triIn.ray.dir, r.distNum)), r.point.den)
            /\ Dot(Sub(r.point.num, Scale(triIn.v0, r.point.den)), GeomNormal) = 0
            /\ r.isFrontFace <=> (GeomDenom < 0)
        /\ (TestTriangle /\ triIn.ray = Ray(Vec(0, 0, 1), Vec(0, 0, -1))) =>
            /\ r.hit /\ r.isFrontFace
            /\ r.distNum = r.distDen
            /\ r.point.num = Scale(ZERO, r.point.den)
        /\ (TestTriangle /\ triIn.ray = Ray(Vec(2, 0, 1), Vec(0, 0, -1))) => ~r.hit

\* a hit whose plane point lies exactly on an edge of the triangle
C2_Witness ==
    /\ triOut.done /\ triOut.res.hit /\ TestTriangle
    /\ GeomOne > 0
    /\ GeomU = 0 \/ GeomV = 0 \/ GeomU + GeomV = GeomOne

----------------------------------------------------------------------------
(* Calls of Matrix4::inverse on compositions of translations, rotations and
   scales *)

MaxShift == 2

SmallScaleInv == 128

MatTranslations ==
    {translation(<<x, y, z>>) : x \in {0, MaxShift}, y \in {0, -1}, z \in {0, 1}}

MatRotations ==
    {identity, rotationX(0, 1), rotationY(0, 1), rotationZ(0, 1), rotationZ(-1, 0),
     times(rotationX(0, 1), rotationZ(0, -1))}

\* scales by 1, by small integers, by halves and by 1/SmallScaleInv, and one
\* scale with a zero component
MatScales ==
    {scale(<<1, 1, 1>>, 1), scale(<<2, 1, -1>>, 1), scale(<<1, 3, 1>>, 2),
     scale(<<1, 1, 1>>, SmallScaleInv), scale(<<3, 1, 2>>, SmallScaleInv),
     scale(<<1, 0, 1>>, 1)}

InitMatrix ==
    /\ InitCamera
    /\ IdleTri
    /\ IdleModel
    /\ IdleVis
    /\ IdleCast
    /\ IdleRay
    /\ IdleRenderer
    /\ IdleInput
    /\ \E t \in MatTranslations, r \in MatRotations, sc \in MatScales :
          matIn = times(times(t, r), sc)
    /\ matOut = [done |-> FALSE]

\* Matrix4 inv = M.inverse(); Matrix4 product = M * inv;
CallInverse ==
    /\ ~matOut.done
    /\ matOut' = [done |-> TRUE, inverse |-> inverse(matIn),
                  product |-> times(matIn, inverse(matIn))]
    /\ UNCHANGED <<matIn, triVars, camVars, selVars, visVars, castVars, rayVars,
                   editVars, rendVars, inputVars>>

NextMatrix == CallInverse

SpecMatrix == InitMatrix /\ [][NextMatrix]_vars

----------------------------------------------------------------------------
(* C21 *)

\* C21: for every matrix M whose determinant is not zero, M * M.inverse() is
\* the identity matrix.
C21_InverseRoundTrip ==
    (matOut.done /\ determinantNum(matIn) # 0) => isIdentity(matOut.product)

----------------------------------------------------------------------------
(* Camera mutators interleaved with reads of the cached matrices *)

CacheTarget == Vec(1, 0, 2)

\* half the largest distance
CacheDistance == MaxDistance \div 2

CallViewMutator ==
    /\ UNCHANGED nonCamVars
    /\ \/ setTarget(CacheTarget)
       \/ setDistance(CacheDistance)
       \/ setPitch(-30)
       \/ setYaw(90)
       \/ orbit(-89, 0)
       \/ (distance * 4 <= 2 * MaxDistance /\ zoom(4))
       \/ setFrontView
       \/ setRightView
       \/ setTopView
       \/ setIsometricView
       \/ focusOnPoint(CacheTarget, CacheDistance)

CallProjectionMutator ==
    /\ UNCHANGED nonCamVars
    /\ \/ \E f \in {45, 60} : setFOV(f)
       \/ setAspectRatio(<<16, 9>>)
       \/ setClippingPlanes(2, 2000)

CallGetViewMatrix == UNCHANGED nonCamVars /\ getViewMatrix

CallGetProjectionMatrix == UNCHANGED nonCamVars /\ getProjectionMatrix

CallGetViewProjectionMatrix == UNCHANGED nonCamVars /\ getViewProjectionMatrix

NextCameraCache ==
    \/ CallViewMutator
    \/ CallProjectionMutator
    \/ CallGetViewMatrix
    \/ CallGetProjectionMatrix
    \/ CallGetViewProjectionMatrix

SpecCameraCache == InitCameraOnly /\ [][NextCameraCache]_vars

----------------------------------------------------------------------------
(* C22 *)

ViewMutators ==
    {"setTarget", "setDistance", "setPitch", "setYaw", "orbit", "zoom", "setFrontView",
     "setRightView", "setTopView", "setIsometricView", "focusOnPoint"}

ProjectionMutators == {"setFOV", "setAspectRatio", "setClippingPlanes"}

\* C22: after any interleaving of Camera mutators and matrix reads, a cached
\* matrix whose dirty flag is clear is the matrix of the current parameters,
\* getViewMatrix and getProjectionMatrix return the matrix of the current
\* parameters, every view mutator sets viewDirty, every projection mutator sets
\* projectionDirty, a read clears its flag, and a read that follows a read of
\* the same matrix does not recompute.
C22_CacheNeverStale ==
    [][/\ ~viewDirty' => viewMatrix' = updateViewMatrix'
       /\ ~projectionDirty' => projectionMatrix' = updateProjectionMatrix'
       /\ camOp'.op = "getViewMatrix" =>
             (camOp'.b = updateViewMatrix' /\ ~viewDirty')
       /\ camOp'.op = "getProjectionMatrix" =>
             (camOp'.b = updateProjectionMatrix' /\ ~projectionDirty')
       /\ camOp'.op = "getViewProjectionMatrix" =>
             (camOp'.b = <<updateProjectionMatrix', updateViewMatrix'>>
                /\ ~viewDirty' /\ ~projectionDirty')
       /\ camOp'.op \in ViewMutators => viewDirty'
       /\ camOp'.op \in ProjectionMutators => projectionDirty'
       /\ (camOp.op = "getViewMatrix" /\ camOp'.op = "getViewMatrix") => ~camOp'.a
       /\ (camOp.op = "getProjectionMatrix" /\ camOp'.op = "getProjectionMatrix")
             => ~camOp'.a]_vars

\* a view matrix was read, the yaw was then set to another value, and the
\* matrix was read again
C22_Witness ==
    /\ camOp.op = "getViewMatrix"
    /\ camOp.a
    /\ viewMatrix.yaw = 90
    /\ ~projectionDirty
    /\ projectionMatrix.fov = 60

----------------------------------------------------------------------------
(* C25, C26 *)

\* C25: after setTopView the derived position lies above the target
\* (position.z > target.z) and the forward vector has a negative Z component.
C25_TopViewLooksDown ==
    camOp.op = "setTopView" => (positionOffset[3] > 0 /\ forwardDirection[3] < 0)

\* two vectors of the same direction
SameDirection(a, b) == a # ZERO /\ normalized(a) = normalized(b)

\* C26: for |pitch| < 90 degrees getUpVector has the direction of the up axis
\* of Matrix4::lookAt, its Z component is positive, and in the front view
\* (pitch = 0, yaw = 0) it is (0, 0, 1).
C26_UpVectorPointsUp ==
    (Abs(pitch) < 90 /\ distance # 0) =>
       /\ SameDirection(getUpVector, lookAtUp)
       /\ getUpVector[3] > 0
       /\ (pitch = 0 /\ yaw = 0) => SameDirection(getUpVector, WorldUp)

----------------------------------------------------------------------------
(* C23 *)

\* a fraction in [0, 1]
InUnit(t) == t.num >= 0 /\ t.num <= t.den

\* C23: on every return path of rayEdgeDistance both output parameters are
\* assigned, with rayParameter >= 0 and edgeParameter in [0, 1], whatever the
\* caller's variables held before the call.
C23_ParametersDefined ==
    rayOut.done =>
       /\ rayOut.ab.rayParameter.num >= 0 /\ InUnit(rayOut.ab.edgeParameter)
       /\ rayOut.ba.rayParameter.num >= 0 /\ InUnit(rayOut.ba.edgeParameter)

----------------------------------------------------------------------------
(* RayIntersection: the screen-space tests of the renderer.  Screen
   coordinates are exact fractions; the camera looks along a coordinate axis,
   so that forward, right and up are unit vectors with integer components. *)

\* the fraction n / d for d # 0, with a positive denominator
Rat(n, d) == IF d < 0 THEN Frac(-n, -d) ELSE Frac(n, d)

\* sums, differences, products and comparisons of fractions, over the least
\* common denominator
RAdd(x, y) ==
    LET g == GCD(x.den, y.den)
    IN  Frac(x.num * (y.den \div g) + y.num * (x.den \div g), x.den * (y.den \div g))

RSub(x, y) == RAdd(x, [num |-> -y.num, den |-> y.den])

RMul(x, y) ==
    LET a == Frac(x.num, y.den)
        b == Frac(y.num, x.den)
    IN  Frac(a.num * b.num, a.den * b.den)

RLeq(x, y) ==
    LET g == GCD(x.den, y.den)
    IN  x.num * (y.den \div g) <= y.num * (x.den \div g)

\* a length (num / den) * sqrt(sq): a ray parameter u of a ray with direction
\* representative D is u * |D|, and a depth z is z * 1
RayLength(u, ray) == [num |-> u.num, den |-> u.den, sq |-> LenSq(ray.dir)]

PlainLength(z) == [num |-> z, den |-> 1, sq |-> 1]

\* forward, right and up of the three functions
cameraBasis(cameraPos, cameraTarget, cameraUp) ==
    LET forward == normalized(Sub(cameraTarget, cameraPos))
        right == normalized(Cross(forward, cameraUp))
    IN  [pos |-> cameraPos, forward |-> forward, right |-> right,
         up |-> Cross(right, forward)]

\* the lambda projectToScreen: (0, 0, -1) for a point with z <= 0.001f
projectToScreen(point, cam) ==
    LET toPoint == Sub(point, cam.pos)
        z == Dot(toPoint, cam.forward)
    IN  IF z <= 0 THEN [x |-> Frac(0, 1), y |-> Frac(0, 1), z |-> -1]
        ELSE [x |-> Rat(Dot(toPoint, cam.right), z),
              y |-> Rat(Dot(toPoint, cam.up), z), z |-> z]

\* rayScreenX and rayScreenY; for rayZ = 0 the quotients are infinite or NaN
\* and every comparison "<= threshold" made with them is false
rayOnScreen(ray, cam) ==
    LET rayZ == Dot(ray.dir, cam.forward)
    IN  IF rayZ = 0 THEN [finite |-> FALSE, x |-> Frac(0, 1), y |-> Frac(0, 1)]
        ELSE [finite |-> TRUE, x |-> Rat(Dot(ray.dir, cam.right), rayZ),
              y |-> Rat(Dot(ray.dir, cam.up), rayZ)]

\* Vector3(dx, dy, 0).length() <= threshold
within2D(dx, dy, threshold) ==
    /\ threshold.num >= 0
    /\ RLeq(RAdd(RMul(dx, dx), RMul(dy, dy)), RMul(threshold, threshold))

\* a default-constructed hit of the screen-space tests
NoScreenHit ==
    [hit |-> FALSE, distance |-> PlainLength(0), point |-> RatPoint(ZERO, 1),
     index |-> -1, parameter |-> Frac(0, 1)]

\* std::max(Vector3::dot(point - ray.origin, ray.direction), 0.0f)
rayT(ray, point) == RayLength(paramOnRay(ray, point), ray)

intersectVertexScreenSpace(ray, vertex, threshold, vertexIndex, cam) ==
    LET screen == projectToScreen(vertex, cam)
        r == rayOnScreen(ray, cam)
    IN  IF screen.z < 0 THEN NoScreenHit
        ELSE [hit |-> r.finite /\ within2D(RSub(r.x, screen.x), RSub(r.y, screen.y),
                                           threshold),
              distance |-> rayT(ray, RatPoint(vertex, 1)),
              point |-> RatPoint(vertex, 1),
              index |-> vertexIndex,
              parameter |-> Frac(0, 1)]

\* the closest point of the projected segment to the ray, as the clamped
\* parameter t = dot(startToRay, edgeDir2D) / edgeLength2D / edgeLength2D
segmentParameter(r, screenStart, screenEnd) ==
    LET ex == RSub(screenEnd.x, screenStart.x)
        ey == RSub(screenEnd.y, screenStart.y)
        lenSq == RAdd(RMul(ex, ex), RMul(ey, ey))
        along == RAdd(RMul(RSub(r.x, screenStart.x), ex),
                      RMul(RSub(r.y, screenStart.y), ey))
    IN  clamp01(Rat(along.num * lenSq.den, along.den * lenSq.num))

\* the common part of the edge and the line test past the degenerate branch
segmentHit(ray, r, start, end, screenStart, screenEnd, threshold, index) ==
    LET t == IF r.finite THEN segmentParameter(r, screenStart, screenEnd)
             ELSE Frac(0, 1)
        cx == RAdd(screenStart.x, RMul(t, RSub(screenEnd.x, screenStart.x)))
        cy == RAdd(screenStart.y, RMul(t, RSub(screenEnd.y, screenStart.y)))
        worldPoint == pointAlong(start, Sub(end, start), t)
    IN  [hit |-> r.finite /\ within2D(RSub(r.x, cx), RSub(r.y, cy), threshold),
         distance |-> rayT(ray, worldPoint),
         point |-> worldPoint,
         index |-> index,
         parameter |-> t]

\* whether the projected segment is shorter than 1e-6f
isPoint2D(screenStart, screenEnd) ==
    screenStart.x = screenEnd.x /\ screenStart.y = screenEnd.y

intersectEdgeScreenSpace(ray, edgeStart, edgeEnd, threshold, edgeIndex, cam) ==
    LET screenStart == projectToScreen(edgeStart, cam)
        screenEnd == projectToScreen(edgeEnd, cam)
        r == rayOnScreen(ray, cam)
    IN  IF screenStart.z < 0 /\ screenEnd.z < 0 THEN NoScreenHit
        ELSE IF isPoint2D(screenStart, screenEnd)
        THEN IF r.finite /\ within2D(RSub(r.x, screenStart.x), RSub(r.y, screenStart.y),
                                      threshold)
             THEN [hit |-> TRUE,
                   distance |-> PlainLength(screenStart.z),
                   point |-> RatPoint(edgeStart, 1),
                   index |-> edgeIndex,
                   parameter |-> Frac(0, 1)]
             ELSE [NoScreenHit EXCEPT !.index = edgeIndex]
        ELSE segmentHit(ray, r, edgeStart, edgeEnd, screenStart, screenEnd, threshold,
                        edgeIndex)

intersectLineScreenSpace(ray, line, threshold, lineIndex, cam) ==
    LET screenStart == projectToScreen(line.start, cam)
        screenEnd == projectToScreen(line.end, cam)
        r == rayOnScreen(ray, cam)
        scaled == Frac(threshold.num * line.thickness, threshold.den)
    IN  IF screenStart.z < 0 /\ screenEnd.z < 0 THEN NoScreenHit
        ELSE IF isPoint2D(screenStart, screenEnd)
        THEN IF r.finite /\ within2D(RSub(r.x, screenStart.x), RSub(r.y, screenStart.y),
                                      scaled)
             THEN [hit |-> TRUE,
                   distance |-> rayT(ray, RatPoint(line.start, 1)),
                   point |-> RatPoint(line.start, 1),
                   index |-> lineIndex,
                   parameter |-> Frac(0, 1)]
             ELSE [NoScreenHit EXCEPT !.index = lineIndex]
        ELSE segmentHit(ray, r, line.start, line.end, screenStart, screenEnd, scaled,
                        lineIndex)

----------------------------------------------------------------------------
(* Calls of the screen-space tests *)

MaxScreenCoord == 2

ScreenPoints ==
    {Vec(x, y, z) : x \in -1..1, y \in -MaxScreenCoord..MaxScreenCoord, z \in 0..1}

\* cameras at cameraPos looking along +Y or +X, with the Z axis up
ScreenCameras ==
    {cameraBasis(pos, Add(pos, ahead), WorldUp) :
        pos \in {ZERO, Vec(0, -1, 0)}, ahead \in {Vec(0, 5, 0), Vec(3, 0, 0)}}

\* the rays of the renderer start at the camera position
ScreenDirections == {Vec(0, 1, 0), Vec(1, 2, 0), Vec(1, 0, 0), Vec(-1, 2, 2), ZERO}

ScreenThresholds == {Frac(0, 1), Frac(1, 2)}

InitScreenSpace ==
    /\ InitCamera
    /\ IdleTri
    /\ IdleModel
    /\ IdleVis
    /\ IdleCast
    /\ IdleRenderer
    /\ IdleMore
    /\ \E cam \in ScreenCameras, dir \in ScreenDirections, a, b \in ScreenPoints,
          threshold \in ScreenThresholds :
          rayIn = [op |-> "screenSpace", ray |-> Ray(cam.pos, dir), cam |-> cam,
                   A |-> a, B |-> b, threshold |-> threshold]
    /\ rayOut = [done |-> FALSE]
    /\ absIsInt = TRUE

\* intersectVertexScreenSpace on A, intersectEdgeScreenSpace and
\* intersectLineScreenSpace on A-B
CallScreenSpace ==
    /\ ~rayOut.done
    /\ rayOut' =
         [done |-> TRUE,
          vertex |-> intersectVertexScreenSpace(rayIn.ray, rayIn.A, rayIn.threshold, 0,
                                                rayIn.cam),
          edge |-> intersectEdgeScreenSpace(rayIn.ray, rayIn.A, rayIn.B,
                                            rayIn.threshold, 0, rayIn.cam),
          line |-> intersectLineScreenSpace(rayIn.ray,
                                            [start |-> rayIn.A, end |-> rayIn.B,
                                             color |-> 1, thickness |-> 2],
                                            rayIn.threshold, 0, rayIn.cam)]
    /\ UNCHANGED <<rayIn, absIsInt, triVars, camVars, selVars, visVars, castVars,
                   editVars, rendVars, moreVars>>

NextScreenSpace == CallScreenSpace

SpecScreenSpace == InitScreenSpace /\ [][NextScreenSpace]_vars

----------------------------------------------------------------------------
(* C24 *)

\* two lengths (num / den) * sqrt(sq) that are equal
SameLength(a, b) ==
    /\ Sign(a.num) * Sign(a.sq) = Sign(b.num) * Sign(b.sq)
    /\ RMul(RMul(Frac(Abs(a.num), a.den), Frac(Abs(a.num), a.den)), Frac(a.sq, 1))
         = RMul(RMul(Frac(Abs(b.num), b.den), Frac(Abs(b.num), b.den)), Frac(b.sq, 1))

\* the returned distance is the ray parameter of the returned point
IsRayParameter(hit) == hit.hit => SameLength(hit.distance, rayT(rayIn.ray, hit.point))

\* C24: whenever intersectVertexScreenSpace, intersectEdgeScreenSpace or
\* intersectLineScreenSpace reports a hit, the returned distance is
\* max(0, dot(hitPoint - ray.origin, ray.direction)) for the returned point.
C24_ScreenSpaceDistance ==
    rayOut.done =>
       /\ IsRayParameter(rayOut.vertex)
       /\ IsRayParameter(rayOut.edge)
       /\ IsRayParameter(rayOut.line)

----------------------------------------------------------------------------
(* Every call that edits a Model or its selection *)

\* the size given to createCube, in grid units: createCube(0.1f)
CubeSize == 2

\* the indices of removeFace and removeEdge: the last and the one beyond it
ElementIndices(seq) == {Len(seq) - 1, Len(seq)}

\* a ray from the camera along its view direction
ModelRay == Ray(getPosition, getForwardVector)

\* faces and edges are taken out one by one from a model of a few vertices
isSmall == Len(vertices) <= MaxVertices

CallRemoveFace ==
    /\ isSmall
    /\ EditFrame
    /\ \E index \in ElementIndices(faces) : removeFace(index)

CallRemoveEdge ==
    /\ isSmall
    /\ EditFrame
    /\ \E index \in ElementIndices(edges) : removeEdge(index)

\* addFace with a face of three vertices, with one that names a vertex twice
\* and with one that names the index beyond the last vertex
CallAddAnyFace ==
    /\ Len(faces) < 2
    /\ EditFrame
    /\ \E face \in {<<0, 1, 2>>, <<0, 1, 1>>, <<0, 1, Len(vertices)>>} : addFace(face)

\* addEdge with the same three kinds of edge
CallAddAnyEdge ==
    /\ edges = <<>>
    /\ EditFrame
    /\ \E edge \in {<<0, 1>>, <<1, 1>>, <<0, Len(vertices)>>} : addEdge(edge)

\* setVertexPosition with the index of the first vertex and the index beyond
\* the last
CallMoveVertex ==
    /\ EditFrame
    /\ \E index \in {0, Len(vertices)} : setVertexPosition(index, Vec(0, 0, 2))

\* removeVertex with the index of the second vertex, which has indices below
\* and above it, and with the index beyond the last vertex
CallRemoveInnerVertex ==
    /\ EditFrame
    /\ \E index \in {1, Len(vertices)} : removeVertex(index)

CallClearModel == EditFrame /\ clearModel

CallCreateCube == EditFrame /\ createCube(CubeSize)

CallCreateTriangle == EditFrame /\ createTriangle

CallCreateQuad == EditFrame /\ createQuad

\* the calls that edit the geometry
NextGeometry ==
    \/ CallAddVertex
    \/ CallAddAnyFace
    \/ CallAddAnyEdge
    \/ CallRemoveInnerVertex
    \/ CallRemoveFace
    \/ CallRemoveEdge
    \/ CallMoveVertex
    \/ CallClearModel
    \/ CallCreateCube
    \/ CallCreateTriangle
    \/ CallCreateQuad

SpecGeometry == InitEdit /\ [][NextGeometry]_vars

----------------------------------------------------------------------------
(* Every call that edits a Model or its selection, on the last element *)

SelectAddFace == EditFrame /\ faces = <<>> /\ addFace(<<0, 1, 2>>)

SelectAddEdge == EditFrame /\ edges = <<>> /\ addEdge(<<0, 1>>)

SelectRemoveVertex == isSmall /\ EditFrame /\ removeVertex(Len(vertices) - 1)

SelectRemoveFace == isSmall /\ EditFrame /\ removeFace(Len(faces) - 1)

SelectRemoveEdge == isSmall /\ EditFrame /\ removeEdge(Len(edges) - 1)

SelectSetSelectedVertex == EditFrame /\ selectForEdit(Len(vertices) - 1)

SelectPick ==
    /\ UNCHANGED nonSelVars
    /\ \E baseThreshold \in {b \in BaseThresholds : \A c \in BaseThresholds : c <= b} :
           selectVertex(ModelRay, baseThreshold)

NextModel ==
    \/ CallAddVertex
    \/ SelectAddFace
    \/ SelectAddEdge
    \/ SelectRemoveVertex
    \/ SelectRemoveFace
    \/ SelectRemoveEdge
    \/ CallClearModel
    \/ CallCreateCube
    \/ CallCreateTriangle
    \/ CallCreateQuad
    \/ SelectSetSelectedVertex
    \/ CallClearSelection
    \/ SelectPick

SpecModel == InitEdit /\ [][NextModel]_vars

----------------------------------------------------------------------------
(* C27 *)

\* C27: after any sequence of Model operations the selected-vertex index is
\* -1 or a valid index into the current vertex array, so that
\* getSelectedVertexPosition and the deselection test of selectVertex read
\* inside the array.
C27_SelectionInRange ==
    selectedVertexIndex = -1 \/ isVertexIndexValid(selectedVertexIndex)

----------------------------------------------------------------------------
(* C28 *)

\* the faces or edges of seq that do not reference vertex index i
notReferencing(seq, i) == SelectSeq(seq, LAMBDA el : \A k \in 1..Len(el) : el[k] # i)

\* after is before without the elements that reference i, in the same order,
\* with every index above i one lower and every index below i as it was
isRenumbered(after, before, i) ==
    LET kept == notReferencing(before, i)
    IN  /\ Len(after) = Len(kept)
        /\ \A k \in 1..Len(kept) : \A j \in 1..Len(kept[k]) :
               /\ kept[k][j] > i => after[k][j] = kept[k][j] - 1
               /\ kept[k][j] < i => after[k][j] = kept[k][j]

\* C28: after any sequence of addVertex, addFace, addEdge, removeVertex,
\* removeFace, removeEdge, setVertexPosition, clear, createCube,
\* createTriangle and createQuad calls isValid() holds: every face and edge
\* references in-range, pairwise-distinct vertex indices.  removeVertex(i) with
\* a valid i deletes exactly the faces and edges that referenced i, lowers
\* every remaining index above i by one and leaves those below i unchanged.
C28_ModelStaysValid ==
    [][/\ isValid'
       /\ (editOp'.op = "removeVertex" /\ isVertexIndexValid(editOp'.index))
            => /\ isRenumbered(faces', faces, editOp'.index)
               /\ isRenumbered(edges', edges, editOp'.index)
               /\ Len(vertices') = Len(vertices) - 1]_vars

\* removeVertex(1) on the cube: four of the twelve faces and four of the
\* eighteen edges referenced vertex 1 and are gone; the other eight faces
\* keep their order, their index 0 and have every index above 1 one lower
C28_Witness ==
    /\ editOp = EditCall("removeVertex", 1)
    /\ Len(vertices) = 7
    /\ faces = <<<<0, 2, 1>>, <<3, 4, 5>>, <<3, 5, 6>>, <<0, 4, 3>>,
                 <<1, 6, 5>>, <<1, 2, 6>>, <<0, 3, 6>>, <<0, 6, 2>>>>
    /\ Len(edges) = 14
    /\ isValid

----------------------------------------------------------------------------
(* C29 *)

\* the renderer of in with maxReflectionDepth set to maxDepth and all else equal
withMaxReflectionDepth(in, maxDepth) ==
    [in EXCEPT !.reflectionConfig.maxReflectionDepth = maxDepth]

\* C29: with enableReflection = false the color castRay returns for a primary
\* ray (depth 0) does not depend on maxReflectionDepth: renderers that differ
\* only in maxReflectionDepth (any value, including 0) return the same color,
\* so a ray that hits an enabled primitive yields that primitive's color.
C29_DepthIrrelevant ==
    (castOut.done /\ ~castIn.reflectionConfig.enableReflection)
        => \A maxDepth \in 0..MaxReflectionDepth :
               castRay(withMaxReflectionDepth(castIn, maxDepth), 0, 0) = castOut.color

----------------------------------------------------------------------------
(* Callbacks delivered to the InputHandler *)

\* cursor positions in quarter pixels: a quarter, half a pixel and a pixel
\* apart, and 100, 100.25, 100.5 and 101 pixels apart
CursorXs == {0, 1, 2, 402, 406}

CursorYs == {0}

ScrollOffsets == {0}

InputKeys == {"5"}

InitInput ==
    /\ InitCamera
    /\ IdleTri
    /\ IdleModel
    /\ IdleVis
    /\ IdleCast
    /\ rayIn = [op |-> "none"]
    /\ rayOut = [done |-> TRUE]
    /\ absIsInt \in BOOLEAN
    /\ IdleRenderer
    /\ IdleMath
    /\ handler = InputHandlerInit
    /\ cursor \in CursorXs \X CursorYs
    /\ inputOp = NoInputCall

InputFrame ==
    UNCHANGED <<triVars, selVars, visVars, castVars, rayVars, editVars, rendVars,
                mathVars>>

CallMouseButton ==
    /\ InputFrame
    /\ \E button \in {GLFW_MOUSE_BUTTON_LEFT, GLFW_MOUSE_BUTTON_MIDDLE},
          action \in {GLFW_PRESS, GLFW_RELEASE} :
           mouseButtonCallback(button, action)

CallCursorPos ==
    /\ InputFrame
    /\ \E xpos \in CursorXs, ypos \in CursorYs : cursorPosCallback(xpos, ypos)

CallScroll ==
    /\ InputFrame
    /\ \E yoffset \in ScrollOffsets :
           /\ distance * zoomFactor2(yoffset) <= 2 * MaxDistance
           /\ scrollCallback(yoffset)

CallKey ==
    /\ InputFrame
    /\ \E key \in InputKeys, action \in {GLFW_PRESS, GLFW_RELEASE} :
           keyCallback(key, action)

CallUpdate == InputFrame /\ update

NextInput ==
    \/ CallMouseButton
    \/ CallCursorPos
    \/ CallScroll
    \/ CallKey
    \/ CallUpdate

SpecInput == InitInput /\ [][NextInput]_vars

----------------------------------------------------------------------------
(* C30 *)

\* C30: across any sequence of mouse-button, cursor-position, scroll and key
\* callbacks Camera::orbit is invoked only while the input mode is
\* CAMERA_ORBIT (after a middle-button press and before its release), never
\* for the first cursor-position event that follows a middle-button press,
\* and never for a cursor event whose movement exceeds 100 pixels on either
\* axis or is below 0.5 pixels on both axes.  The movement of a cursor event
\* is its position less the position the cursor had before it.
C30_OrbitOnlyWhileDragging ==
    [][inputOp'.orbit
         => /\ inputOp'.op = "cursorPos"
            /\ handler.currentMode = "CAMERA_ORBIT"
            /\ handler.mouseButtons[3]
            /\ inputOp'.cursorEvents # 1
            /\ Abs(cursor'[1] - cursor[1]) <= AbnormalPixels * PixelInv
            /\ Abs(cursor'[2] - cursor[2]) <= AbnormalPixels * PixelInv
            /\ \/ Abs(cursor'[1] - cursor[1]) * JitterInv >= PixelInv
               \/ Abs(cursor'[2] - cursor[2]) * JitterInv >= PixelInv]_vars

====
